---- MODULE Spec2Model ----
(***************************************************************************)
(* Model of the thor-os kernel network stack and its blocking primitives:  *)
(*   - the counting semaphore        (kernel/include/conc/semaphore.hpp)   *)
(*   - the stream (TCP) transport    (kernel/src/net/tcp_layer.cpp)        *)
(*   - the datagram (UDP) transport  (kernel/src/net/udp_layer.cpp)        *)
(*   - the connection tables of both transports, with several sockets      *)
(*   - the ICMP echo handling        (kernel/src/net/icmp_layer.cpp)       *)
(*   - the prepared packets of a socket (kernel/include/net/socket.hpp)    *)
(*   - several readers of one socket's listen queue                        *)
(* Each subsystem has its own specification (SemSpec, SemFairSpec, ...)    *)
(* over the variables it owns; the other variables stay at their initial   *)
(* values.                                                                 *)
(***************************************************************************)
EXTENDS Integers, Sequences, FiniteSets, TLC

VARIABLES
    \* ---- semaphore (semaphore.hpp:165-168) and the scheduler state of its users
    value,        \* semaphore::value, the counter
    queue,        \* semaphore::queue, the sleep queue of pids (FIFO)
    init_value,   \* the argument v of semaphore::init
    sem_pc,       \* per process: where it is in lock()/the critical section
    blocked,      \* per process: scheduler state BLOCKED (block_process_light)
    lock_order,   \* history: pids in the order they enqueued themselves in lock()
    wake_order,   \* history: pids in the order unlock() dequeued and unblocked them
    ext_unlocks,  \* history: number of unlock() calls by a process holding no permit
    \* ---- stream transport (tcp_layer.cpp): the port counter, one socket and its connection
    local_port,     \* std::atomic<size_t> local_port (line 26)
    in_table,       \* the connection record is in `connections` (line 67)
    c_created,      \* sock.connection_data points at the record (line 530)
    c_local_port,   \* tcp_connection::local_port
    listening,      \* tcp_connection::listening
    connected,      \* tcp_connection::connected
    seq_number,     \* tcp_connection::seq_number
    ack_number,     \* tcp_connection::ack_number
    packets,        \* tcp_connection::packets, the ack-queue
    listen,         \* socket::listen
    listen_packets, \* socket::listen_packets, the listen queue
    \* ---- the process calling connect/send/receive/disconnect on the socket
    pc,             \* where the caller is
    op,             \* the operation it is in (or was last in)
    p,              \* the frame handed to finalize_packet
    t,              \* finalize_packet: the attempt counter of the for loop
    received,       \* finalize_packet: bool received
    l_seq,          \* finalize_packet: uint32_t seq
    l_ack,          \* finalize_packet: uint32_t ack
    before,         \* finalize_packet: auto before
    after,          \* finalize_packet: auto after
    deadline,       \* the running wait_for: the time at which it times out
    recv_n,         \* receive: the size n of the caller's buffer
    rec_ack,        \* disconnect: bool rec_ack
    result,         \* what the last operation returned
    \* ---- the decode path (the thread that handles incoming packets)
    d_pc,           \* where decode is
    d_seg,          \* the segment it is decoding
    \* ---- environment
    clock,          \* timer::milliseconds(), read relative to the start of the operation
    lower,          \* what the internet layer does with our requests
    sent,           \* history: the frames handed to the internet layer since the operation began
    ops_left,       \* operations the caller may still start
    arrivals_left,  \* segments that may still arrive
    \* ---- history
    accepted,       \* the segment the current operation accepted as its acknowledgement
    delivered,      \* the segments decode found the connection for, since the operation began
    answers,        \* those it put on the ack-queue after the operation's first transmission
    \* ---- datagram transport (udp_layer.cpp): the port counter and the socket's connection
    udp_local_port,   \* std::atomic<size_t> local_port (line 21)
    udp_in_table,     \* the connection record is in `connections` (line 33)
    udp_created,      \* sock.connection_data points at the record (line 162)
    udp_c_local_port, \* udp_connection::local_port
    udp_connected,    \* udp_connection::connected
    \* ---- the caller's memory
    buffer,         \* the bytes receive copied to the caller's buffer
    \* ---- the connection tables: per transport, several sockets and their callers
    tab_counter,    \* std::atomic<size_t> local_port of the transport
    tab_table,      \* connections: the records created, in order of creation
    tab_sock,       \* per socket: sock.connection_data (0: none)
    tab_pc,         \* per socket: where its caller is in connect / client_bind
    tab_ref,        \* per socket: the caller's local `connection`
    tab_remote,     \* per socket: the server_port argument of the running call
    tab_assigned,   \* history: the values ++local_port returned, in order
    tab_live,       \* history: <<local port, server port>> of the connections set up and not removed
    \* ---- ICMP: network::icmp::decode
    icmp_pc,        \* where decode is
    icmp_packet,    \* the packet decode was called with
    icmp_reply,     \* reply_packet: what kernel_prepare_packet returned
    icmp_sent,      \* the frames handed to the driver, in order
    icmp_lower,     \* how the internet layer behaves
    icmp_left,      \* packets still to arrive
    \* ---- the prepared packets of one socket
    next_fd,        \* socket::next_fd
    sock_packets,   \* socket::packets, each with its fd
    fd_returned,    \* history: the descriptors register_packet returned, in order
    fd_registered,  \* history: the descriptors returned and not erased since
    fd_left,        \* calls still to make
    \* ---- several readers of one socket
    rd_pc,          \* per reader: where its receive is
    rd_packets,     \* socket.listen_packets
    rd_waiting,     \* socket.listen_queue: the readers blocked in wait / wait_for
    rd_got,         \* per reader: what its last pop took
    rd_left,        \* packets still to arrive
    rd_calls,       \* receive calls still to make
    \* ---- semaphore::release / irq_release
    rel_args        \* history: the arguments n of the release calls made, in order

semvars == <<value, queue, init_value, sem_pc, blocked, lock_order, wake_order, ext_unlocks>>

connvars == <<local_port, in_table, c_created, c_local_port, listening, connected,
              seq_number, ack_number, packets, listen, listen_packets>>

callvars == <<pc, op, p, t, received, l_seq, l_ack, before, after, deadline, recv_n,
              rec_ack, result>>

envvars == <<d_pc, d_seg, clock, lower, sent, ops_left, arrivals_left, accepted, delivered,
             answers>>

tcpvars == <<connvars, callvars, envvars>>

udpvars == <<udp_local_port, udp_in_table, udp_created, udp_c_local_port, udp_connected>>

netvars == <<tcpvars, udpvars, buffer>>

tabvars == <<tab_counter, tab_table, tab_sock, tab_pc, tab_ref, tab_remote, tab_assigned,
             tab_live>>

icmpvars == <<icmp_pc, icmp_packet, icmp_reply, icmp_sent, icmp_lower, icmp_left>>

fdvars == <<next_fd, sock_packets, fd_returned, fd_registered, fd_left>>

rdvars == <<rd_pc, rd_packets, rd_waiting, rd_got, rd_left, rd_calls>>

relvars == <<rel_args>>

auxvars == <<icmpvars, fdvars, rdvars, relvars>>

vars == <<semvars, netvars, tabvars, auxvars>>

-----------------------------------------------------------------------------
(* Bounds of the model *)

NProcs == 3        \* processes using the semaphore
MaxV == 2          \* largest initial value given to init
MaxBlocks == 3     \* lock() calls that take the slow (enqueue) path
MaxExt == 2        \* unlock() calls by processes that hold no permit
MaxRelease == 3    \* largest argument n given to release

MaxAckFlood == 9      \* segments that arrive during one send, one more than the ack-queue holds
MaxListenFlood == 33  \* packets that arrive for a socket in listen mode, one more than its queue holds

MaxOps == 2        \* operations the caller starts on the socket
MaxArrivals == 2   \* segments the peer sends
TicksPerTimeout == 2 \* steps in which the clock covers timeout_ms

MaxRecvOps == 3      \* operations the caller starts, when it only receives
MaxRecvArrivals == 3 \* packets the peer sends to a caller that only receives

NSocks == 2          \* sockets of each transport whose callers create connections
MaxCreates == 3      \* connections created, in both transports together

MaxIcmpArrivals == 2 \* ICMP packets that arrive
MaxFdCalls == 5      \* calls of register_packet and erase_packet on the socket
NReaders == 2        \* processes that call receive on the same socket
MaxReaderArrivals == 2 \* packets that arrive for the socket with several readers
MaxReaderCalls == 3  \* receive calls of the readers, together

(* Program constants *)

QueueCapacity == 16   \* circular_buffer<scheduler::pid_t, 16>
timeout_ms == 1000    \* tcp_layer.cpp:28
max_tries == 5        \* tcp_layer.cpp:29
Two16 == 65536        \* half of a uint32_t (seq_number, ack_number), kept as <<high, low>>
first_local_port == 1023 \* init_layer: local_port = 1023
server_port == 80     \* the server_port argument given to connect
udp_first_local_port == 1023 \* udp init_layer: local_port = 1023
udp_server_port == 7  \* the server_port argument given to client_bind
udp_header_size == 8  \* sizeof(network::udp::header)
ack_queue_capacity == 8     \* tcp_layer.cpp:50, circular_buffer<network::ethernet::packet, 8>
listen_queue_capacity == 32 \* socket.hpp:41, circular_buffer<network::ethernet::packet, 32>

Procs == 1..NProcs

-----------------------------------------------------------------------------
(* Scheduler collaborator (spec section 5): block_process_light marks the     *)
(* process blocked, it keeps running until it calls reschedule; unblock    *)
(* makes it runnable again.                                                *)

block_process_light(b, pid) == [b EXCEPT ![pid] = TRUE]

unblock_process(b, pid) == [b EXCEPT ![pid] = FALSE]

-----------------------------------------------------------------------------
(* semaphore::init *)

SemStart ==
    /\ init_value \in 0..MaxV
    /\ value = init_value
    /\ queue = <<>>
    /\ sem_pc = [pid \in Procs |-> "idle"]
    /\ blocked = [pid \in Procs |-> FALSE]
    /\ lock_order = <<>>
    /\ wake_order = <<>>
    /\ ext_unlocks = 0

(* semaphore::lock, the part under value_lock (lines 39-49).  In the fast  *)
(* path the caller returns with a permit; in the slow path it has pushed   *)
(* its pid, marked itself blocked and released the spinlock, and is about  *)
(* to call reschedule.                                                     *)
lock(pid) ==
    /\ sem_pc[pid] = "idle"
    /\ IF value > 0
       THEN /\ value' = value - 1
            /\ sem_pc' = [sem_pc EXCEPT ![pid] = "held"]
            /\ UNCHANGED <<queue, blocked, lock_order>>
       ELSE /\ Len(lock_order) < MaxBlocks
            /\ Len(queue) < QueueCapacity
            /\ queue' = Append(queue, pid)
            /\ blocked' = block_process_light(blocked, pid)
            /\ sem_pc' = [sem_pc EXCEPT ![pid] = "resched"]
            /\ lock_order' = Append(lock_order, pid)
            /\ UNCHANGED value
    /\ UNCHANGED <<init_value, wake_order, ext_unlocks, netvars, tabvars, auxvars>>

(* A variant in which the process is marked blocked only when it gives up *)
(* the processor, after the spinlock was released                          *)
reschedule_blocks(pid) ==
    /\ sem_pc[pid] = "resched"
    /\ blocked' = block_process_light(blocked, pid)
    /\ sem_pc' = [sem_pc EXCEPT ![pid] = "asleep"]
    /\ UNCHANGED <<value, queue, init_value, lock_order, wake_order, ext_unlocks, netvars, tabvars, auxvars>>

(* scheduler::reschedule() at line 50: a process that is still marked      *)
(* blocked is switched out; one that was already unblocked goes on and     *)
(* returns from lock().                                                    *)
reschedule(pid) ==
    /\ sem_pc[pid] = "resched"
    /\ sem_pc' = [sem_pc EXCEPT ![pid] = IF blocked[pid] THEN "asleep" ELSE "held"]
    /\ UNCHANGED <<value, queue, init_value, blocked, lock_order, wake_order, ext_unlocks, netvars, tabvars, auxvars>>

(* The scheduler runs an unblocked sleeper again: lock() returns (line 52) *)
resume(pid) ==
    /\ sem_pc[pid] = "asleep"
    /\ ~blocked[pid]
    /\ sem_pc' = [sem_pc EXCEPT ![pid] = "held"]
    /\ UNCHANGED <<value, queue, init_value, blocked, lock_order, wake_order, ext_unlocks, netvars, tabvars, auxvars>>

(* semaphore::try_lock (lines 61-71) *)
try_lock(pid) ==
    /\ sem_pc[pid] = "idle"
    /\ IF value > 0
       THEN /\ value' = value - 1
            /\ sem_pc' = [sem_pc EXCEPT ![pid] = "held"]
       ELSE UNCHANGED <<value, sem_pc>>
    /\ UNCHANGED <<queue, init_value, blocked, lock_order, wake_order, ext_unlocks, netvars, tabvars, auxvars>>

(* The body of semaphore::unlock (lines 80-91), whoever calls it *)
unlock_body_keeps_counter_and_bumps ==
    IF queue = <<>>
    THEN /\ value' = value + 1
         /\ UNCHANGED <<queue, blocked, wake_order>>
    ELSE /\ queue' = Tail(queue)
         /\ blocked' = unblock_process(blocked, Head(queue))
         /\ wake_order' = Append(wake_order, Head(queue))
         /\ value' = value + 1

unlock_body_lifo ==
    IF queue = <<>>
    THEN /\ value' = value + 1
         /\ UNCHANGED <<queue, blocked, wake_order>>
    ELSE /\ queue' = SubSeq(queue, 1, Len(queue) - 1)
         /\ blocked' = unblock_process(blocked, queue[Len(queue)])
         /\ wake_order' = Append(wake_order, queue[Len(queue)])
         /\ UNCHANGED value

unlock_body_forgets_waiter ==
    IF queue = <<>>
    THEN /\ value' = value + 1
         /\ UNCHANGED <<queue, blocked, wake_order>>
    ELSE /\ queue' = Tail(queue)
         /\ UNCHANGED <<value, blocked, wake_order>>

unlock_body ==
    IF queue = <<>>
    THEN /\ value' = value + 1
         /\ UNCHANGED <<queue, blocked, wake_order>>
    ELSE /\ queue' = Tail(queue)
         /\ blocked' = unblock_process(blocked, Head(queue))
         /\ wake_order' = Append(wake_order, Head(queue))
         /\ UNCHANGED value

(* unlock() by a process that holds a permit *)
unlock(pid) ==
    /\ sem_pc[pid] = "held"
    /\ unlock_body
    /\ sem_pc' = [sem_pc EXCEPT ![pid] = "idle"]
    /\ UNCHANGED <<init_value, lock_order, ext_unlocks, netvars, tabvars, auxvars>>

(* unlock() by a process that holds no permit (the semaphore used as a     *)
(* signal, as with an initial value of 0)                                  *)
signal(pid) ==
    /\ sem_pc[pid] = "idle"
    /\ ext_unlocks < MaxExt
    /\ unlock_body
    /\ ext_unlocks' = ext_unlocks + 1
    /\ UNCHANGED <<init_value, sem_pc, lock_order, netvars, tabvars, auxvars>>

(* scheduler::unblock_process_hint (spec section 5): the wake is deferred, *)
(* the process runs again when the scheduler resumes it                    *)
unblock_process_hint(b, pid) == [b EXCEPT ![pid] = FALSE]

(* The body of semaphore::irq_unlock (lines 100-113) *)
irq_unlock_body_bumps ==
    IF queue = <<>>
    THEN /\ value' = value + 1
         /\ UNCHANGED <<queue, blocked, wake_order>>
    ELSE /\ queue' = Tail(queue)
         /\ blocked' = unblock_process_hint(blocked, Head(queue))
         /\ wake_order' = Append(wake_order, Head(queue))
         /\ value' = value + 1

irq_unlock_body ==
    IF queue = <<>>
    THEN /\ value' = value + 1
         /\ UNCHANGED <<queue, blocked, wake_order>>
    ELSE /\ queue' = Tail(queue)
         /\ blocked' = unblock_process_hint(blocked, Head(queue))
         /\ wake_order' = Append(wake_order, Head(queue))
         /\ UNCHANGED value

(* irq_unlock() by an interrupt handler, which holds no permit *)
irq_unlock ==
    /\ ext_unlocks < MaxExt
    /\ irq_unlock_body
    /\ ext_unlocks' = ext_unlocks + 1
    /\ UNCHANGED <<init_value, sem_pc, lock_order, netvars, tabvars, auxvars>>

(* One pass of the loop of release, lines 128-132: the waiters woken, then *)
(* what is left of n                                                       *)
RECURSIVE release_loop(_, _, _, _)
release_loop(q, b, w, n) ==
    IF n # 0 /\ q # <<>>
    THEN release_loop(Tail(q), unblock_process(b, Head(q)), Append(w, Head(q)), n - 1)
    ELSE [queue |-> q, blocked |-> b, wake_order |-> w, n |-> n]

(* A variant that adds the whole of n to the counter after waking waiters  *)
release_body_adds_all(n) ==
    IF queue = <<>>
    THEN /\ value' = value + n
         /\ UNCHANGED <<queue, blocked, wake_order>>
    ELSE LET r == release_loop(queue, blocked, wake_order, n)
         IN  /\ queue' = r.queue
             /\ blocked' = r.blocked
             /\ wake_order' = r.wake_order
             /\ value' = value + n

(* The body of semaphore::release (lines 123-137) *)
release_body(n) ==
    IF queue = <<>>
    THEN /\ value' = value + n
         /\ UNCHANGED <<queue, blocked, wake_order>>
    ELSE LET r == release_loop(queue, blocked, wake_order, n)
         IN  /\ queue' = r.queue
             /\ blocked' = r.blocked
             /\ wake_order' = r.wake_order
             /\ value' = IF r.n # 0 THEN value + r.n ELSE value

(* release(n) by a process that holds no permit *)
release(pid, n) ==
    /\ sem_pc[pid] = "idle"
    /\ ext_unlocks < MaxExt
    /\ release_body(n)
    /\ ext_unlocks' = ext_unlocks + 1
    /\ rel_args' = Append(rel_args, n)
    /\ UNCHANGED <<init_value, sem_pc, lock_order, netvars, tabvars, icmpvars, fdvars, rdvars>>

(* One pass of the loop of irq_release, lines 153-157 *)
RECURSIVE irq_release_loop(_, _, _, _)
irq_release_loop(q, b, w, n) ==
    IF n # 0 /\ q # <<>>
    THEN irq_release_loop(Tail(q), unblock_process_hint(b, Head(q)), Append(w, Head(q)), n - 1)
    ELSE [queue |-> q, blocked |-> b, wake_order |-> w, n |-> n]

(* A variant that adds what is left of n to the counter as soon as one     *)
(* waiter was woken, with others still queued                              *)
irq_release_body_wakes_one(n) ==
    IF queue = <<>>
    THEN /\ value' = value + n
         /\ UNCHANGED <<queue, blocked, wake_order>>
    ELSE LET r == irq_release_loop(queue, blocked, wake_order, IF n = 0 THEN 0 ELSE 1)
         IN  /\ queue' = r.queue
             /\ blocked' = r.blocked
             /\ wake_order' = r.wake_order
             /\ value' = IF n > 1 THEN value + (n - 1) ELSE value

(* The body of semaphore::irq_release (lines 148-162) *)
irq_release_body(n) ==
    IF queue = <<>>
    THEN /\ value' = value + n
         /\ UNCHANGED <<queue, blocked, wake_order>>
    ELSE LET r == irq_release_loop(queue, blocked, wake_order, n)
         IN  /\ queue' = r.queue
             /\ blocked' = r.blocked
             /\ wake_order' = r.wake_order
             /\ value' = IF r.n # 0 THEN value + r.n ELSE value

(* irq_release(n) by an interrupt handler *)
irq_release(n) ==
    /\ ext_unlocks < MaxExt
    /\ irq_release_body(n)
    /\ ext_unlocks' = ext_unlocks + 1
    /\ rel_args' = Append(rel_args, n)
    /\ UNCHANGED <<init_value, sem_pc, lock_order, netvars, tabvars, icmpvars, fdvars, rdvars>>

(* The semaphore at rest (for the specifications of other parts) *)
SemQuiet ==
    /\ init_value = 0
    /\ value = 0
    /\ queue = <<>>
    /\ sem_pc = [pid \in Procs |-> "idle"]
    /\ blocked = [pid \in Procs |-> FALSE]
    /\ lock_order = <<>>
    /\ wake_order = <<>>
    /\ ext_unlocks = 0

-----------------------------------------------------------------------------
(* Stream transport: values *)

(* A uint32_t is kept as its two 16-bit halves <<high, low>>; W(n) is the   *)
(* small number n as a uint32_t, Add32 the addition modulo 2^32.           *)
W(n) == <<n \div Two16, n % Two16>>

MaxU32 == <<Two16 - 1, Two16 - 1>>

Add32(x, n) ==
    <<(x[1] + (x[2] + n) \div Two16) % Two16, (x[2] + n) % Two16>>

(* get_default_flags: no flag set (the data offset is not a flag) *)
get_default_flags == {}

(* A stream segment as the decode path reads it from the wire *)
Segment(sport, tport, flags, seq, ack, payload) ==
    [sport |-> sport, tport |-> tport, flags |-> flags,
     seq |-> seq, ack |-> ack, payload |-> payload]

NoSeg == Segment(0, 0, {}, W(0), W(0), <<>>)

(* An outbound frame, with the function that handed it to the internet layer *)
Frame(by, sport, tport, flags, seq, ack, payload) ==
    [by |-> by, sport |-> sport, tport |-> tport, flags |-> flags,
     seq |-> seq, ack |-> ack, payload |-> payload]

(* The packet built by kernel_prepare_packet/user_prepare_packet *)
Packet(flags, seq, ack, payload, user) ==
    [flags |-> flags, seq |-> seq, ack |-> ack, payload |-> payload, user |-> user]

NoPacket == Packet({}, W(0), W(0), <<>>, FALSE)

(* What the peer may send to the connection's port pair *)
ToUs(flags, seq, ack, payload) ==
    Segment(server_port, first_local_port + 1, flags, seq, ack, payload)

SynAck == ToUs({"SYN", "ACK"}, W(1000), W(1), <<>>)

Ack == ToUs({"ACK"}, MaxU32, W(4), <<>>)

Data == ToUs({"PSH", "ACK"}, W(1001), W(1), <<"h", "i">>)

Data2 == ToUs({"PSH", "ACK"}, W(1003), W(1), <<"y", "o", "u">>)

FinAck == ToUs({"FIN", "ACK"}, W(1003), W(5), <<>>)

Rst == ToUs({"RST"}, W(0), W(0), <<>>)

(* A data segment whose last byte has the sequence number 2^32 - 1 *)
DataWrap == ToUs({"PSH", "ACK"}, <<Two16 - 1, Two16 - 2>>, W(1), <<"h", "i">>)

PeerSegments == {SynAck, Ack, Data, DataWrap, FinAck, Rst}

Payloads == {<<"x", "y", "z">>}

RecvSizes == {1, 8}

Ret(code, val) == [code |-> code, val |-> val]

-----------------------------------------------------------------------------
(* Collaborators *)

(* connection_handler::get_connection_for_packet (spec section 4.G): the   *)
(* live record whose remote port is the packet's source port and whose     *)
(* local port is its target port.                                          *)
get_connection_for_packet(source_port, target_port) ==
    in_table /\ server_port = source_port /\ c_local_port = target_port

(* network::ip::kernel_prepare_packet / user_prepare_packet succeed *)
ip_prepare_ok == lower # "no_prepare"

(* network::ip::finalize_packet succeeds *)
ip_finalize_ok == lower # "no_finalize"

(* condition_variable::notify_one (spec section 4.C): wakes the caller if  *)
(* it is waiting on that condition variable, and is a no-op otherwise.     *)
notify_ack_queue(c) ==
    CASE c = "fin_wait" -> "fin_pop"
      [] c = "dis_wait" -> "dis_pop"
      [] c = "dis2_wait" -> "dis2_pop"
      [] OTHER -> c

notify_listen_queue(c) ==
    CASE c = "recv_wait" -> "recv_pop"
      [] c = "rt_wait" -> "recv_pop"
      [] c = "udp_recv_wait" -> "udp_recv_pop"
      [] c = "udp_rt_wait" -> "udp_recv_pop"
      [] OTHER -> c

TimedWaits == {"fin_wait", "dis_wait", "dis2_wait", "rt_wait", "udp_rt_wait"}

Min(a, b) == IF a < b THEN a ELSE b

(* Time passes while the caller is blocked in wait_for, up to its deadline *)
Tick ==
    /\ pc \in TimedWaits
    /\ clock < deadline
    /\ clock' = Min(deadline, clock + timeout_ms \div TicksPerTimeout)
    /\ UNCHANGED <<local_port, in_table, c_created, c_local_port, listening,
                   connected, seq_number, ack_number, packets, listen,
                   listen_packets, pc, op, result, p, t, received, l_seq, l_ack,
                   before, after, deadline, recv_n, rec_ack, d_pc, d_seg, lower,
                   sent, ops_left, arrivals_left, accepted, delivered, answers,
                   udp_local_port, udp_in_table, udp_created, udp_c_local_port,
                   udp_connected, buffer, semvars, tabvars, auxvars>>

-----------------------------------------------------------------------------
(* network::tcp::init_layer, a fresh socket and the state of a new          *)
(* tcp_connection record (lines 43-61, 184-186)                            *)

Fresh ==
    /\ local_port = first_local_port
    /\ in_table = FALSE
    /\ c_created = FALSE
    /\ c_local_port = 0
    /\ listening = FALSE
    /\ connected = FALSE
    /\ seq_number = W(0)
    /\ ack_number = W(0)
    /\ packets = <<>>
    /\ listen_packets = <<>>

(* network::udp::init_layer (udp_layer.cpp:75-77) and a socket that is not  *)
(* bound                                                                   *)
UdpFresh ==
    /\ udp_local_port = udp_first_local_port
    /\ udp_in_table = FALSE
    /\ udp_created = FALSE
    /\ udp_c_local_port = 0
    /\ udp_connected = FALSE

(* The socket after a connect that the peer answered with SynAck *)
Established ==
    /\ local_port = first_local_port + 1
    /\ in_table = TRUE
    /\ c_created = TRUE
    /\ c_local_port = first_local_port + 1
    /\ listening = FALSE
    /\ connected = TRUE
    /\ seq_number = SynAck.ack
    /\ ack_number = Add32(SynAck.seq, 1)
    /\ packets = <<>>
    /\ listen_packets = <<>>

(* The caller outside any operation, the decode path idle *)
AtRest ==
    /\ pc = "idle"
    /\ op = "none"
    /\ p = NoPacket
    /\ t = 0
    /\ received = FALSE
    /\ l_seq = W(0)
    /\ l_ack = W(0)
    /\ before = 0
    /\ after = 0
    /\ deadline = 0
    /\ recv_n = 0
    /\ rec_ack = FALSE
    /\ result = Ret("NONE", 0)
    /\ d_pc = "idle"
    /\ d_seg = NoSeg
    /\ clock = 0
    /\ sent = <<>>
    /\ accepted = NoSeg
    /\ delivered = {}
    /\ answers = {}
    /\ buffer = <<>>

TcpStart ==
    /\ Fresh \/ Established
    /\ UdpFresh
    /\ AtRest
    /\ listen \in BOOLEAN
    /\ lower \in {"ok", "no_prepare", "no_finalize"}
    /\ ops_left = MaxOps
    /\ arrivals_left = MaxArrivals

(* The stream transport at rest (for the specifications of other parts) *)
TcpQuiet ==
    /\ Fresh
    /\ UdpFresh
    /\ AtRest
    /\ listen = FALSE
    /\ lower = "ok"
    /\ ops_left = 0
    /\ arrivals_left = 0

-----------------------------------------------------------------------------
(* circular_buffer<T, S>: a FIFO with room for S values.  push appends     *)
(* while there is room.  The code never tests for room before it pushes;   *)
(* what a push onto a full buffer leaves behind is the buffer's business:  *)
(* the value is dropped, or it takes the place of the oldest one, or the   *)
(* indices wrap and the buffer reads as empty.                             *)
push_onto_full(buf, x) == {buf, Append(Tail(buf), x), <<>>}

push(buf, capacity, x) ==
    IF Len(buf) < capacity THEN {Append(buf, x)} ELSE push_onto_full(buf, x)

-----------------------------------------------------------------------------
(* network::tcp::decode *)

tcp_payload_len(packet) == Len(packet.payload)

(* A variant of the standalone ACK that acknowledges the segment's first    *)
(* byte only                                                               *)
decode_ack_frames_no_length(seg) ==
    IF "PSH" \in seg.flags /\ ip_prepare_ok /\ ip_finalize_ok
    THEN <<Frame("decode", seg.tport, seg.sport, get_default_flags \cup {"ACK"},
                 seg.ack, Add32(seg.seq, 1), <<>>)>>
    ELSE <<>>

(* lines 254-272: the standalone ACK for a segment with PSH, sent with      *)
(* finalize_packet_direct                                                  *)
decode_ack_frames(seg) ==
    IF "PSH" \in seg.flags /\ ip_prepare_ok /\ ip_finalize_ok
    THEN <<Frame("decode", seg.tport, seg.sport, get_default_flags \cup {"ACK"},
                 seg.ack, Add32(seg.seq, tcp_payload_len(seg)), <<>>)>>
    ELSE <<>>

(* decode, lines 188-218: parse, look the connection up, store seq_number  *)
(* (without a connection: lines 249-272)                                   *)
decode_lookup(seg) ==
    /\ d_pc = "idle"
    /\ arrivals_left > 0
    /\ arrivals_left' = arrivals_left - 1
    /\ IF get_connection_for_packet(seg.sport, seg.tport)
       THEN /\ seq_number' = seg.ack
            /\ d_pc' = "update"
            /\ d_seg' = seg
            /\ delivered' = delivered \cup {seg}
            /\ UNCHANGED sent
       ELSE /\ sent' = sent \o decode_ack_frames(seg)
            /\ UNCHANGED <<seq_number, d_pc, d_seg, delivered>>
    /\ UNCHANGED <<local_port, in_table, c_created, c_local_port, listening,
                   connected, ack_number, packets, listen, listen_packets, pc, op,
                   result, p, t, received, l_seq, l_ack, before, after, deadline,
                   recv_n, rec_ack, clock, lower, ops_left, accepted, answers,
                   udp_local_port, udp_in_table, udp_created, udp_c_local_port,
                   udp_connected, buffer, semvars, tabvars, auxvars>>

(* decode, lines 219-272: store ack_number, hand the packet to the          *)
(* listening operation and to the socket, acknowledge                      *)
decode_deliver_at_front ==
    /\ d_pc = "update"
    /\ ack_number' = Add32(d_seg.seq, tcp_payload_len(d_seg))
    /\ packets' = IF listening THEN <<d_seg>> \o packets ELSE packets
    /\ listen_packets' = IF "PSH" \in d_seg.flags /\ listen
                         THEN Append(listen_packets, d_seg)
                         ELSE listen_packets
    /\ pc' = LET c1 == IF listening THEN notify_ack_queue(pc) ELSE pc
             IN  IF "PSH" \in d_seg.flags /\ listen THEN notify_listen_queue(c1) ELSE c1
    /\ sent' = sent \o decode_ack_frames(d_seg)
    /\ answers' = IF listening /\ \E i \in 1..Len(sent) : sent[i].by # "decode"
                   THEN answers \cup {d_seg}
                   ELSE answers
    /\ d_pc' = "idle"
    /\ d_seg' = NoSeg
    /\ UNCHANGED <<local_port, in_table, c_created, c_local_port, listening,
                   connected, seq_number, listen, op, result, p, t, received,
                   l_seq, l_ack, before, after, deadline, recv_n, rec_ack, clock,
                   lower, ops_left, arrivals_left, accepted, delivered,
                   udp_local_port, udp_in_table, udp_created, udp_c_local_port,
                   udp_connected, buffer, semvars, tabvars, auxvars>>

(* decode, lines 219-272: store ack_number, hand the packet to the          *)
(* listening operation and to the socket, acknowledge                      *)
decode_deliver ==
    /\ d_pc = "update"
    /\ ack_number' = Add32(d_seg.seq, tcp_payload_len(d_seg))
    /\ packets' \in IF listening
                     THEN push(packets, ack_queue_capacity, d_seg)
                     ELSE {packets}
    /\ listen_packets' \in IF "PSH" \in d_seg.flags /\ listen
                            THEN push(listen_packets, listen_queue_capacity, d_seg)
                            ELSE {listen_packets}
    /\ pc' = LET c1 == IF listening THEN notify_ack_queue(pc) ELSE pc
             IN  IF "PSH" \in d_seg.flags /\ listen THEN notify_listen_queue(c1) ELSE c1
    /\ sent' = sent \o decode_ack_frames(d_seg)
    /\ answers' = IF listening /\ \E i \in 1..Len(sent) : sent[i].by # "decode"
                   THEN answers \cup {d_seg}
                   ELSE answers
    /\ d_pc' = "idle"
    /\ d_seg' = NoSeg
    /\ UNCHANGED <<local_port, in_table, c_created, c_local_port, listening,
                   connected, seq_number, listen, op, result, p, t, received,
                   l_seq, l_ack, before, after, deadline, recv_n, rec_ack, clock,
                   lower, ops_left, arrivals_left, accepted, delivered,
                   udp_local_port, udp_in_table, udp_created, udp_c_local_port,
                   udp_connected, buffer, semvars, tabvars, auxvars>>

-----------------------------------------------------------------------------
(* Starting and ending an operation.  The clock is read relative to the     *)
(* start of the operation (the code only uses differences of readings made *)
(* within one call), `sent` lists the frames transmitted since then; the   *)
(* locals of the call go out of scope when it returns.                     *)

Begin(name) ==
    /\ pc = "idle"
    /\ ops_left > 0
    /\ ops_left' = ops_left - 1
    /\ op' = name
    /\ clock' = 0
    /\ sent' = <<>>
    /\ accepted' = NoSeg
    /\ delivered' = {}
    /\ answers' = {}

Return(code, val) ==
    /\ result' = Ret(code, val)
    /\ pc' = "idle"
    /\ p' = NoPacket
    /\ t' = 0
    /\ received' = FALSE
    /\ l_seq' = W(0)
    /\ l_ack' = W(0)
    /\ before' = 0
    /\ after' = 0
    /\ deadline' = 0
    /\ recv_n' = 0
    /\ rec_ack' = FALSE

(* network::tcp::connect, lines 520-547: create the connection, take a      *)
(* port, link the socket, prepare the SYN                                  *)
connect ==
    /\ Begin("connect")
    /\ ~c_created
    /\ in_table' = TRUE
    /\ c_created' = TRUE
    /\ local_port' = local_port + 1
    /\ c_local_port' = local_port + 1
    /\ IF ip_prepare_ok
       THEN /\ p' = Packet(get_default_flags \cup {"SYN"}, seq_number, ack_number,
                           <<>>, FALSE)
            /\ pc' = "fin_listen"
            /\ UNCHANGED <<result, t, received, l_seq, l_ack, before, after, deadline, recv_n, rec_ack>>
       ELSE Return("LOWER_ERROR", 0)
    /\ UNCHANGED <<listening, connected, seq_number, ack_number, packets, listen,
                   listen_packets, d_pc, d_seg, lower, arrivals_left,
                   udp_local_port, udp_in_table, udp_created, udp_c_local_port,
                   udp_connected, buffer, semvars, tabvars, auxvars>>

(* network::tcp::send (lines 275-299) with user_prepare_packet (365-398) *)
send_without_check(data) ==
    /\ Begin("send")
    /\ c_created /\ in_table
    /\ IF ~ip_prepare_ok
       THEN Return("LOWER_ERROR", 0)
       ELSE /\ p' = Packet(get_default_flags \cup {"PSH", "ACK"},
                           seq_number, ack_number, data, TRUE)
            /\ pc' = "fin_listen"
            /\ UNCHANGED <<result, t, received, l_seq, l_ack, before, after, deadline, recv_n, rec_ack>>
    /\ UNCHANGED <<local_port, in_table, c_created, c_local_port, listening,
                   connected, seq_number, ack_number, packets, listen,
                   listen_packets, d_pc, d_seg, lower, arrivals_left,
                   udp_local_port, udp_in_table, udp_created, udp_c_local_port,
                   udp_connected, buffer, semvars, tabvars, auxvars>>

send(data) ==
    /\ Begin("send")
    /\ c_created /\ in_table
    /\ IF ~connected
       THEN Return("NOT_CONNECTED", 0)
       ELSE IF ~ip_prepare_ok
       THEN Return("LOWER_ERROR", 0)
       ELSE /\ p' = Packet(get_default_flags \cup {"PSH", "ACK"},
                           seq_number, ack_number, data, TRUE)
            /\ pc' = "fin_listen"
            /\ UNCHANGED <<result, t, received, l_seq, l_ack, before, after, deadline, recv_n, rec_ack>>
    /\ UNCHANGED <<local_port, in_table, c_created, c_local_port, listening,
                   connected, seq_number, ack_number, packets, listen,
                   listen_packets, d_pc, d_seg, lower, arrivals_left,
                   udp_local_port, udp_in_table, udp_created, udp_c_local_port,
                   udp_connected, buffer, semvars, tabvars, auxvars>>

-----------------------------------------------------------------------------
(* network::tcp::finalize_packet (lines 400-518) *)

(* The frame that one transmission of a packet puts on the wire *)
frame_of_current_numbers(by, packet) ==
    Frame(by, c_local_port, server_port, packet.flags, seq_number, ack_number,
          packet.payload)

frame_of(by, packet) ==
    Frame(by, c_local_port, server_port, packet.flags, packet.seq, packet.ack,
          packet.payload)

(* lines 401-417 *)
fin_listen ==
    /\ pc = "fin_listen"
    /\ listening' = TRUE
    /\ l_seq' = W(0)
    /\ l_ack' = W(0)
    /\ received' = FALSE
    /\ t' = 0
    /\ pc' = "fin_tx"
    /\ UNCHANGED <<local_port, in_table, c_created, c_local_port, connected,
                   seq_number, ack_number, packets, listen, listen_packets, op,
                   result, p, before, after, deadline, recv_n, rec_ack, d_pc,
                   d_seg, clock, lower, sent, ops_left, arrivals_left, accepted,
                   delivered, answers, udp_local_port, udp_in_table, udp_created,
                   udp_c_local_port, udp_connected, buffer, semvars, tabvars,
                   auxvars>>

(* lines 419-447: one transmission; a refusal of the internet layer ends    *)
(* the operation at once                                                   *)
fin_transmit ==
    /\ pc = "fin_tx"
    /\ IF ip_finalize_ok
       THEN /\ sent' = Append(sent, frame_of("finalize", p))
            /\ before' = clock
            /\ after' = clock
            /\ pc' = "fin_chk"
            /\ UNCHANGED <<result, p, t, received, l_seq, l_ack, deadline, recv_n, rec_ack>>
       ELSE /\ Return("LOWER_ERROR", 0)
            /\ UNCHANGED sent
    /\ UNCHANGED <<local_port, in_table, c_created, c_local_port, listening,
                   connected, seq_number, ack_number, packets, listen,
                   listen_packets, op, d_pc, d_seg, clock, lower, ops_left,
                   arrivals_left, accepted, delivered, answers, udp_local_port,
                   udp_in_table, udp_created, udp_c_local_port, udp_connected,
                   buffer, semvars, tabvars, auxvars>>

(* What follows the while loop when no acknowledgement was received in     *)
(* this attempt: lines 494-499 and the loop test of line 419               *)
fin_attempt_failed_off_by_one ==
    /\ after' = clock
    /\ t' = t + 1
    /\ pc' = IF t + 1 <= max_tries THEN "fin_tx" ELSE "fin_stop"
    /\ UNCHANGED <<seq_number, ack_number>>

fin_attempt_failed_advances_seq ==
    /\ after' = clock
    /\ t' = t + 1
    /\ pc' = IF t + 1 < max_tries THEN "fin_tx" ELSE "fin_stop"
    /\ seq_number' = Add32(seq_number, tcp_payload_len(p))
    /\ UNCHANGED ack_number

fin_attempt_failed ==
    /\ after' = clock
    /\ t' = t + 1
    /\ pc' = IF t + 1 < max_tries THEN "fin_tx" ELSE "fin_stop"
    /\ UNCHANGED <<seq_number, ack_number>>

(* lines 449-457: the timeout test, then wait_for(remaining) *)
fin_check ==
    /\ pc = "fin_chk"
    /\ IF after > before + timeout_ms
       THEN fin_attempt_failed /\ UNCHANGED deadline
       ELSE /\ deadline' = clock + (timeout_ms - (after - before))
            /\ pc' = "fin_wait"
            /\ UNCHANGED <<after, t, seq_number, ack_number>>
    /\ UNCHANGED <<local_port, in_table, c_created, c_local_port, listening,
                   connected, packets, listen, listen_packets, op, result, p,
                   received, l_seq, l_ack, before, recv_n, rec_ack, d_pc, d_seg,
                   clock, lower, sent, ops_left, arrivals_left, accepted,
                   delivered, answers, udp_local_port, udp_in_table, udp_created,
                   udp_c_local_port, udp_connected, buffer, semvars, tabvars,
                   auxvars>>

(* wait_for returned false (lines 489-491) *)
fin_timeout ==
    /\ pc = "fin_wait"
    /\ clock >= deadline
    /\ fin_attempt_failed
    /\ UNCHANGED <<local_port, in_table, c_created, c_local_port, listening,
                   connected, packets, listen, listen_packets, op, result, p,
                   received, l_seq, l_ack, before, deadline, recv_n, rec_ack, d_pc,
                   d_seg, clock, lower, sent, ops_left, arrivals_left, accepted,
                   delivered, answers, udp_local_port, udp_in_table, udp_created,
                   udp_c_local_port, udp_connected, buffer, semvars, tabvars,
                   auxvars>>

(* line 463-468: is the received packet the acknowledgement of the frame   *)
(* sent?                                                                   *)
correct_ack_any_answer(source_flags, flags) ==
    IF "SYN" \in source_flags
    THEN "SYN" \in flags /\ "ACK" \in flags
    ELSE TRUE

correct_ack_ack_suffices(source_flags, flags) == "ACK" \in flags

correct_ack(source_flags, flags) ==
    IF "SYN" \in source_flags
    THEN "SYN" \in flags /\ "ACK" \in flags
    ELSE "ACK" \in flags

(* wait_for returned true: lines 458-488 *)
fin_pop ==
    /\ pc = "fin_pop"
    /\ packets # <<>>
    /\ packets' = Tail(packets)
    /\ IF correct_ack(p.flags, Head(packets).flags)
       THEN /\ l_seq' = Head(packets).seq
            /\ l_ack' = Head(packets).ack
            /\ received' = TRUE
            /\ accepted' = Head(packets)
            /\ pc' = "fin_stop"
       ELSE /\ pc' = "fin_chk"
            /\ UNCHANGED <<l_seq, l_ack, received, accepted>>
    /\ UNCHANGED <<local_port, in_table, c_created, c_local_port, listening,
                   connected, seq_number, ack_number, listen, listen_packets, op,
                   result, p, t, before, after, deadline, recv_n, rec_ack, d_pc,
                   d_seg, clock, lower, sent, ops_left, arrivals_left, delivered,
                   answers, udp_local_port, udp_in_table, udp_created,
                   udp_c_local_port, udp_connected, buffer, semvars, tabvars,
                   auxvars>>

(* lines 501-517: stop listening; on success store seq_number (line 511) *)
fin_stop ==
    /\ pc = "fin_stop"
    /\ listening' = FALSE
    /\ IF received
       THEN /\ seq_number' = l_ack
            /\ pc' = "fin_ack"
            /\ UNCHANGED <<result, p, t, received, l_seq, l_ack, before, after, deadline, recv_n, rec_ack>>
       ELSE /\ Return("TCP_ERROR", 0)
            /\ UNCHANGED seq_number
    /\ UNCHANGED <<local_port, in_table, c_created, c_local_port, connected,
                   ack_number, packets, listen, listen_packets, op, d_pc, d_seg,
                   clock, lower, sent, ops_left, arrivals_left, accepted,
                   delivered, answers, udp_local_port, udp_in_table, udp_created,
                   udp_c_local_port, udp_connected, buffer, semvars, tabvars,
                   auxvars>>

(* line 512 and the return of success, to connect or to the caller of send *)
fin_ack ==
    /\ pc = "fin_ack"
    /\ ack_number' = Add32(l_seq, 1)
    /\ IF op = "connect"
       THEN pc' = "con_ack" /\ UNCHANGED <<result, p, t, received, l_seq, l_ack, before, after, deadline, recv_n, rec_ack>>
       ELSE Return("OK", 0)
    /\ UNCHANGED <<local_port, in_table, c_created, c_local_port, listening,
                   connected, seq_number, packets, listen, listen_packets, op,
                   d_pc, d_seg, clock, lower, sent, ops_left, arrivals_left,
                   accepted, delivered, answers, udp_local_port, udp_in_table,
                   udp_created, udp_c_local_port, udp_connected, buffer, semvars,
                   tabvars, auxvars>>

-----------------------------------------------------------------------------
(* connect, lines 555-581 *)

(* lines 559-574: the ACK of the SYN/ACK, sent with finalize_packet_direct *)
con_ack ==
    /\ pc = "con_ack"
    /\ IF ip_prepare_ok
       THEN /\ sent' = IF ip_finalize_ok
                       THEN Append(sent, frame_of("connect",
                                Packet(get_default_flags \cup {"ACK"},
                                       seq_number, ack_number, <<>>, FALSE)))
                       ELSE sent
            /\ pc' = "con_mark"
            /\ UNCHANGED <<result, p, t, received, l_seq, l_ack, before, after, deadline, recv_n, rec_ack>>
       ELSE /\ Return("LOWER_ERROR", 0)
            /\ UNCHANGED sent
    /\ UNCHANGED <<local_port, in_table, c_created, c_local_port, listening,
                   connected, seq_number, ack_number, packets, listen,
                   listen_packets, op, d_pc, d_seg, clock, lower, ops_left,
                   arrivals_left, accepted, delivered, answers, udp_local_port,
                   udp_in_table, udp_created, udp_c_local_port, udp_connected,
                   buffer, semvars, tabvars, auxvars>>

(* lines 576-580 *)
con_mark ==
    /\ pc = "con_mark"
    /\ connected' = TRUE
    /\ Return("OK", c_local_port)
    /\ UNCHANGED <<local_port, in_table, c_created, c_local_port, listening,
                   seq_number, ack_number, packets, listen, listen_packets, op,
                   d_pc, d_seg, clock, lower, sent, ops_left, arrivals_left,
                   accepted, delivered, answers, udp_local_port, udp_in_table,
                   udp_created, udp_c_local_port, udp_connected, buffer, semvars,
                   tabvars, auxvars>>

-----------------------------------------------------------------------------
(* network::tcp::receive *)

(* receive(buffer, socket, n), lines 301-311: up to the test of the queue *)
receive(n) ==
    /\ Begin("recv")
    /\ c_created /\ in_table
    /\ IF ~connected
       THEN Return("NOT_CONNECTED", 0)
       ELSE /\ recv_n' = n
            /\ pc' = IF listen_packets = <<>> THEN "recv_enter" ELSE "recv_pop"
            /\ UNCHANGED <<result, p, t, received, l_seq, l_ack, before, after, deadline, rec_ack>>
    /\ UNCHANGED <<local_port, in_table, c_created, c_local_port, listening,
                   connected, seq_number, ack_number, packets, listen,
                   listen_packets, d_pc, d_seg, lower, arrivals_left,
                   udp_local_port, udp_in_table, udp_created, udp_c_local_port,
                   udp_connected, buffer, semvars, tabvars, auxvars>>

(* line 310: listen_queue.wait() *)
recv_wait ==
    /\ pc = "recv_enter"
    /\ pc' = "recv_wait"
    /\ UNCHANGED <<local_port, in_table, c_created, c_local_port, listening,
                   connected, seq_number, ack_number, packets, listen,
                   listen_packets, op, result, p, t, received, l_seq, l_ack,
                   before, after, deadline, recv_n, rec_ack, d_pc, d_seg, clock,
                   lower, sent, ops_left, arrivals_left, accepted, delivered,
                   answers, udp_local_port, udp_in_table, udp_created,
                   udp_c_local_port, udp_connected, buffer, semvars, tabvars,
                   auxvars>>

(* receive(buffer, socket, n, ms), lines 330-346 *)
receive_timed(n, ms) ==
    /\ Begin("recv_timed")
    /\ c_created /\ in_table
    /\ IF ~connected
       THEN Return("NOT_CONNECTED", 0)
       ELSE IF listen_packets # <<>>
       THEN /\ recv_n' = n
            /\ pc' = "recv_pop"
            /\ UNCHANGED <<result, p, t, received, l_seq, l_ack, before, after, deadline, rec_ack>>
       ELSE IF ms = 0
       THEN Return("SOCKET_TIMEOUT", 0)
       ELSE /\ recv_n' = n
            /\ pc' = "rt_enter"
            /\ deadline' = ms
            /\ UNCHANGED <<result, p, t, received, l_seq, l_ack, before, after, rec_ack>>
    /\ UNCHANGED <<local_port, in_table, c_created, c_local_port, listening,
                   connected, seq_number, ack_number, packets, listen,
                   listen_packets, d_pc, d_seg, lower, arrivals_left,
                   udp_local_port, udp_in_table, udp_created, udp_c_local_port,
                   udp_connected, buffer, semvars, tabvars, auxvars>>

(* line 343: listen_queue.wait_for(ms) starts waiting *)
rt_wait ==
    /\ pc = "rt_enter"
    /\ pc' = "rt_wait"
    /\ UNCHANGED <<local_port, in_table, c_created, c_local_port, listening,
                   connected, seq_number, ack_number, packets, listen,
                   listen_packets, op, result, p, t, received, l_seq, l_ack,
                   before, after, deadline, recv_n, rec_ack, d_pc, d_seg, clock,
                   lower, sent, ops_left, arrivals_left, accepted, delivered,
                   answers, udp_local_port, udp_in_table, udp_created,
                   udp_c_local_port, udp_connected, buffer, semvars, tabvars,
                   auxvars>>

(* lines 343-345: wait_for returned false *)
rt_timeout ==
    /\ pc = "rt_wait"
    /\ clock >= deadline
    /\ Return("SOCKET_TIMEOUT", 0)
    /\ UNCHANGED <<local_port, in_table, c_created, c_local_port, listening,
                   connected, seq_number, ack_number, packets, listen,
                   listen_packets, op, d_pc, d_seg, clock, lower, sent, ops_left,
                   arrivals_left, accepted, delivered, answers, udp_local_port,
                   udp_in_table, udp_created, udp_c_local_port, udp_connected,
                   buffer, semvars, tabvars, auxvars>>

(* std::copy_n(packet.payload + packet.index, len, buffer): the len bytes    *)
(* at the packet's cursor, which decode left at the start of the payload   *)
(* (tcp_layer.cpp:237, udp_layer.cpp:94); what lies behind the payload is  *)
(* not the packet's                                                        *)
copy_n(packet, len, beyond) ==
    [i \in 1..len |-> IF i <= Len(packet.payload) THEN packet.payload[i] ELSE beyond]

BeyondBytes == {"?", "!"}

(* lines 313-327 and 348-362: take the head packet, hand its payload over *)
recv_pop_keeps_packet ==
    /\ pc = "recv_pop"
    /\ listen_packets # <<>>
    /\ listen_packets' = IF tcp_payload_len(Head(listen_packets)) > recv_n
                         THEN listen_packets
                         ELSE Tail(listen_packets)
    /\ IF tcp_payload_len(Head(listen_packets)) > recv_n
       THEN /\ Return("BUFFER_SMALL", 0)
            /\ UNCHANGED buffer
       ELSE /\ Return("OK", tcp_payload_len(Head(listen_packets)))
            /\ \E beyond \in BeyondBytes :
                   buffer' = copy_n(Head(listen_packets),
                                    tcp_payload_len(Head(listen_packets)), beyond)
    /\ UNCHANGED <<local_port, in_table, c_created, c_local_port, listening,
                   connected, seq_number, ack_number, packets, listen, op, d_pc,
                   d_seg, clock, lower, sent, ops_left, arrivals_left, accepted,
                   delivered, answers, udp_local_port, udp_in_table, udp_created,
                   udp_c_local_port, udp_connected, semvars, tabvars, auxvars>>

(* lines 313-327 and 348-362: take the head packet, hand its payload over *)
recv_pop ==
    /\ pc = "recv_pop"
    /\ listen_packets # <<>>
    /\ listen_packets' = Tail(listen_packets)
    /\ IF tcp_payload_len(Head(listen_packets)) > recv_n
       THEN /\ Return("BUFFER_SMALL", 0)
            /\ UNCHANGED buffer
       ELSE /\ Return("OK", tcp_payload_len(Head(listen_packets)))
            /\ \E beyond \in BeyondBytes :
                   buffer' = copy_n(Head(listen_packets),
                                    tcp_payload_len(Head(listen_packets)), beyond)
    /\ UNCHANGED <<local_port, in_table, c_created, c_local_port, listening,
                   connected, seq_number, ack_number, packets, listen, op, d_pc,
                   d_seg, clock, lower, sent, ops_left, arrivals_left, accepted,
                   delivered, answers, udp_local_port, udp_in_table, udp_created,
                   udp_c_local_port, udp_connected, semvars, tabvars, auxvars>>

-----------------------------------------------------------------------------
(* network::tcp::disconnect (lines 583-784) *)

(* lines 583-618: the connected test, the FIN/ACK packet, listening = true *)
disconnect ==
    /\ Begin("disconnect")
    /\ c_created /\ in_table
    /\ IF ~connected
       THEN Return("NOT_CONNECTED", 0) /\ UNCHANGED listening
       ELSE IF ~ip_prepare_ok
       THEN Return("LOWER_ERROR", 0) /\ UNCHANGED listening
       ELSE /\ p' = Packet(get_default_flags \cup {"FIN", "ACK"},
                           seq_number, ack_number, <<>>, FALSE)
            /\ listening' = TRUE
            /\ pc' = "dis_tx"
            /\ UNCHANGED <<result, t, received, l_seq, l_ack, before, after, deadline, recv_n, rec_ack>>
    /\ UNCHANGED <<local_port, in_table, c_created, c_local_port, connected,
                   seq_number, ack_number, packets, listen, listen_packets, d_pc,
                   d_seg, lower, arrivals_left, udp_local_port, udp_in_table,
                   udp_created, udp_c_local_port, udp_connected, buffer, semvars,
                   tabvars, auxvars>>

(* lines 620-638: one transmission of the FIN/ACK *)
dis_transmit ==
    /\ pc = "dis_tx"
    /\ IF ip_finalize_ok
       THEN /\ sent' = Append(sent, frame_of("disconnect", p))
            /\ before' = clock
            /\ after' = clock
            /\ pc' = "dis_chk"
            /\ UNCHANGED <<result, p, t, received, l_seq, l_ack, deadline, recv_n, rec_ack>>
       ELSE /\ Return("LOWER_ERROR", 0)
            /\ UNCHANGED sent
    /\ UNCHANGED <<local_port, in_table, c_created, c_local_port, listening,
                   connected, seq_number, ack_number, packets, listen,
                   listen_packets, op, d_pc, d_seg, clock, lower, ops_left,
                   arrivals_left, accepted, delivered, answers, udp_local_port,
                   udp_in_table, udp_created, udp_c_local_port, udp_connected,
                   buffer, semvars, tabvars, auxvars>>

(* lines 680-685 and the loop test of line 620 *)
dis_attempt_failed ==
    /\ after' = clock
    /\ t' = t + 1
    /\ pc' = IF t + 1 < max_tries THEN "dis_tx" ELSE "dis_after"

(* lines 640-648 *)
dis_check ==
    /\ pc = "dis_chk"
    /\ IF after > before + timeout_ms
       THEN dis_attempt_failed /\ UNCHANGED deadline
       ELSE /\ deadline' = clock + (timeout_ms - (after - before))
            /\ pc' = "dis_wait"
            /\ UNCHANGED <<after, t>>
    /\ UNCHANGED <<local_port, in_table, c_created, c_local_port, listening,
                   connected, seq_number, ack_number, packets, listen,
                   listen_packets, op, result, p, received, l_seq, l_ack, before,
                   recv_n, rec_ack, d_pc, d_seg, clock, lower, sent, ops_left,
                   arrivals_left, accepted, delivered, answers, udp_local_port,
                   udp_in_table, udp_created, udp_c_local_port, udp_connected,
                   buffer, semvars, tabvars, auxvars>>

(* lines 675-677 *)
dis_timeout ==
    /\ pc = "dis_wait"
    /\ clock >= deadline
    /\ dis_attempt_failed
    /\ UNCHANGED <<local_port, in_table, c_created, c_local_port, listening,
                   connected, seq_number, ack_number, packets, listen,
                   listen_packets, op, result, p, received, l_seq, l_ack, before,
                   deadline, recv_n, rec_ack, d_pc, d_seg, clock, lower, sent,
                   ops_left, arrivals_left, accepted, delivered, answers,
                   udp_local_port, udp_in_table, udp_created, udp_c_local_port,
                   udp_connected, buffer, semvars, tabvars, auxvars>>

(* lines 649-674 *)
dis_pop ==
    /\ pc = "dis_pop"
    /\ packets # <<>>
    /\ packets' = Tail(packets)
    /\ IF "ACK" \in Head(packets).flags
       THEN /\ rec_ack' = IF "FIN" \in Head(packets).flags THEN rec_ack ELSE TRUE
            /\ l_seq' = Head(packets).seq
            /\ l_ack' = Head(packets).ack
            /\ received' = TRUE
            /\ accepted' = Head(packets)
            /\ pc' = "dis_after"
       ELSE /\ pc' = "dis_chk"
            /\ UNCHANGED <<rec_ack, l_seq, l_ack, received, accepted>>
    /\ UNCHANGED <<local_port, in_table, c_created, c_local_port, listening,
                   connected, seq_number, ack_number, listen, listen_packets, op,
                   result, p, t, before, after, deadline, recv_n, d_pc, d_seg,
                   clock, lower, sent, ops_left, arrivals_left, delivered, answers,
                   udp_local_port, udp_in_table, udp_created, udp_c_local_port,
                   udp_connected, buffer, semvars, tabvars, auxvars>>

(* lines 687-705 *)
dis_after ==
    /\ pc = "dis_after"
    /\ IF ~received
       THEN /\ Return("TCP_ERROR", 0)
            /\ UNCHANGED <<seq_number, ack_number>>
       ELSE /\ seq_number' = l_ack
            /\ ack_number' = Add32(l_seq, 1)
            /\ IF rec_ack
               THEN /\ received' = FALSE
                    /\ before' = clock
                    /\ after' = clock
                    /\ pc' = "dis2_chk"
                    /\ UNCHANGED <<result, p, t, l_seq, l_ack, deadline, recv_n, rec_ack>>
               ELSE /\ pc' = "dis_fin"
                    /\ UNCHANGED <<result, p, t, received, l_seq, l_ack, before, after, deadline, recv_n, rec_ack>>
    /\ UNCHANGED <<local_port, in_table, c_created, c_local_port, listening,
                   connected, packets, listen, listen_packets, op, d_pc, d_seg,
                   clock, lower, sent, ops_left, arrivals_left, accepted,
                   delivered, answers, udp_local_port, udp_in_table, udp_created,
                   udp_c_local_port, udp_connected, buffer, semvars, tabvars,
                   auxvars>>

(* lines 707-719 *)
dis2_check ==
    /\ pc = "dis2_chk"
    /\ IF after > before + timeout_ms
       THEN Return("TCP_ERROR", 0)
       ELSE IF packets = <<>>
       THEN /\ deadline' = clock + (timeout_ms - (after - before))
            /\ pc' = "dis2_wait"
            /\ UNCHANGED <<result, p, t, received, l_seq, l_ack, before, after, recv_n, rec_ack>>
       ELSE /\ pc' = "dis2_pop"
            /\ UNCHANGED <<result, p, t, received, l_seq, l_ack, before, after, deadline, recv_n, rec_ack>>
    /\ UNCHANGED <<local_port, in_table, c_created, c_local_port, listening,
                   connected, seq_number, ack_number, packets, listen,
                   listen_packets, op, d_pc, d_seg, clock, lower, sent, ops_left,
                   arrivals_left, accepted, delivered, answers, udp_local_port,
                   udp_in_table, udp_created, udp_c_local_port, udp_connected,
                   buffer, semvars, tabvars, auxvars>>

(* lines 716-718 and 742-744 *)
dis2_timeout ==
    /\ pc = "dis2_wait"
    /\ clock >= deadline
    /\ Return("TCP_ERROR", 0)
    /\ UNCHANGED <<local_port, in_table, c_created, c_local_port, listening,
                   connected, seq_number, ack_number, packets, listen,
                   listen_packets, op, d_pc, d_seg, clock, lower, sent, ops_left,
                   arrivals_left, accepted, delivered, answers, udp_local_port,
                   udp_in_table, udp_created, udp_c_local_port, udp_connected,
                   buffer, semvars, tabvars, auxvars>>

(* lines 721-748 *)
dis2_pop ==
    /\ pc = "dis2_pop"
    /\ packets # <<>>
    /\ packets' = Tail(packets)
    /\ IF "FIN" \in Head(packets).flags /\ "ACK" \in Head(packets).flags
       THEN /\ l_seq' = Head(packets).seq
            /\ l_ack' = Head(packets).ack
            /\ received' = TRUE
            /\ accepted' = Head(packets)
            /\ seq_number' = Head(packets).ack
            /\ ack_number' = Add32(Head(packets).seq, 1)
            /\ pc' = "dis_fin"
       ELSE /\ pc' = "dis2_chk"
            /\ UNCHANGED <<l_seq, l_ack, received, accepted, seq_number, ack_number>>
    /\ UNCHANGED <<local_port, in_table, c_created, c_local_port, listening,
                   connected, listen, listen_packets, op, result, p, t, before,
                   after, deadline, recv_n, rec_ack, d_pc, d_seg, clock, lower,
                   sent, ops_left, arrivals_left, delivered, answers,
                   udp_local_port, udp_in_table, udp_created, udp_c_local_port,
                   udp_connected, buffer, semvars, tabvars, auxvars>>

(* lines 755-783: stop listening, send the last ACK, mark the connection   *)
(* not connected and remove it                                             *)
dis_fin ==
    /\ pc = "dis_fin"
    /\ listening' = FALSE
    /\ Return(IF ip_prepare_ok THEN "OK" ELSE "LOWER_ERROR", 0)
    /\ IF ip_prepare_ok
       THEN /\ sent' = IF ip_finalize_ok
                       THEN Append(sent, frame_of("disconnect_ack",
                                Packet(get_default_flags \cup {"ACK"},
                                       seq_number, ack_number, <<>>, FALSE)))
                       ELSE sent
            /\ connected' = FALSE
            /\ in_table' = FALSE
       ELSE UNCHANGED <<sent, connected, in_table>>
    /\ UNCHANGED <<local_port, c_created, c_local_port, seq_number, ack_number,
                   packets, listen, listen_packets, op, d_pc, d_seg, clock, lower,
                   ops_left, arrivals_left, accepted, delivered, answers,
                   udp_local_port, udp_in_table, udp_created, udp_c_local_port,
                   udp_connected, buffer, semvars, tabvars, auxvars>>

-----------------------------------------------------------------------------
(* Datagram transport (udp_layer.cpp) *)

(* A datagram as the decode path reads it from the wire; prepare_packet     *)
(* (lines 59-71) sets the header's length to the header plus the payload   *)
Datagram(sport, tport, payload) ==
    [sport |-> sport, tport |-> tport, length |-> udp_header_size + Len(payload),
     payload |-> payload]

(* What the peer may send to the bound socket's port pair *)
Ping == Datagram(udp_server_port, udp_first_local_port + 1, <<"p", "i", "n", "g">>)

Pong == Datagram(udp_server_port, udp_first_local_port + 1, <<"o", "k">>)

Stray == Datagram(udp_server_port, udp_first_local_port + 2, <<"n", "o">>)

PeerDatagrams == {Ping, Pong, Stray}

DgramRecvSizes == {1, 8, 16}

(* connections.get_connection_for_packet (spec section 4.G) on the          *)
(* datagram table                                                          *)
udp_get_connection_for_packet(source_port, target_port) ==
    udp_in_table /\ udp_server_port = source_port /\ udp_c_local_port = target_port

(* network::udp::decode (lines 79-122) *)
udp_decode_at_front(dg) ==
    /\ arrivals_left > 0
    /\ arrivals_left' = arrivals_left - 1
    /\ delivered' = delivered \cup {dg}
    /\ IF udp_get_connection_for_packet(dg.sport, dg.tport) /\ listen
       THEN /\ listen_packets' = <<dg>> \o listen_packets
            /\ pc' = notify_listen_queue(pc)
       ELSE UNCHANGED <<listen_packets, pc>>
    /\ UNCHANGED <<local_port, in_table, c_created, c_local_port, listening,
                   connected, seq_number, ack_number, packets, listen, op, result,
                   p, t, received, l_seq, l_ack, before, after, deadline, recv_n,
                   rec_ack, d_pc, d_seg, clock, lower, sent, ops_left, accepted,
                   answers, udp_local_port, udp_in_table, udp_created,
                   udp_c_local_port, udp_connected, buffer, semvars, tabvars,
                   auxvars>>

(* network::udp::decode (lines 79-122) *)
udp_decode(dg) ==
    /\ arrivals_left > 0
    /\ arrivals_left' = arrivals_left - 1
    /\ delivered' = delivered \cup {dg}
    /\ IF udp_get_connection_for_packet(dg.sport, dg.tport) /\ listen
       THEN /\ listen_packets' \in push(listen_packets, listen_queue_capacity, dg)
            /\ pc' = notify_listen_queue(pc)
       ELSE UNCHANGED <<listen_packets, pc>>
    /\ UNCHANGED <<local_port, in_table, c_created, c_local_port, listening,
                   connected, seq_number, ack_number, packets, listen, op, result,
                   p, t, received, l_seq, l_ack, before, after, deadline, recv_n,
                   rec_ack, d_pc, d_seg, clock, lower, sent, ops_left, accepted,
                   answers, udp_local_port, udp_in_table, udp_created,
                   udp_c_local_port, udp_connected, buffer, semvars, tabvars,
                   auxvars>>

(* network::udp::client_bind, lines 152-163, called by a thread of the      *)
(* socket's process: the connection, its ports, the link with the socket   *)
client_bind ==
    /\ ops_left > 0
    /\ ops_left' = ops_left - 1
    /\ ~udp_created /\ ~c_created
    /\ udp_in_table' = TRUE
    /\ udp_local_port' = udp_local_port + 1
    /\ udp_c_local_port' = udp_local_port + 1
    /\ udp_created' = TRUE
    /\ udp_connected' = FALSE
    /\ UNCHANGED <<local_port, in_table, c_created, c_local_port, listening,
                   connected, seq_number, ack_number, packets, listen,
                   listen_packets, pc, op, result, p, t, received, l_seq, l_ack,
                   before, after, deadline, recv_n, rec_ack, d_pc, d_seg, clock,
                   lower, sent, arrivals_left, accepted, delivered, answers,
                   buffer, semvars, tabvars, auxvars>>

(* network::udp::client_bind, lines 165-169: mark the connection connected *)
(* and return connection.local_port                                        *)
client_bind_connected ==
    /\ udp_in_table /\ ~udp_connected
    /\ udp_connected' = TRUE
    /\ UNCHANGED <<local_port, in_table, c_created, c_local_port, listening,
                   connected, seq_number, ack_number, packets, listen,
                   listen_packets, pc, op, result, p, t, received, l_seq, l_ack,
                   before, after, deadline, recv_n, rec_ack, d_pc, d_seg, clock,
                   lower, sent, ops_left, arrivals_left, accepted, delivered,
                   answers, udp_local_port, udp_in_table, udp_created,
                   udp_c_local_port, buffer, semvars, tabvars, auxvars>>

(* network::udp::client_unbind (lines 172-186) *)
client_unbind_keeps_connection ==
    /\ Begin("unbind")
    /\ udp_created /\ udp_in_table
    /\ IF ~udp_connected
       THEN /\ Return("NOT_CONNECTED", 0)
            /\ UNCHANGED <<udp_connected, udp_in_table>>
       ELSE /\ udp_connected' = FALSE
            /\ udp_in_table' = udp_in_table
            /\ Return("OK", 0)
    /\ UNCHANGED <<local_port, in_table, c_created, c_local_port, listening,
                   connected, seq_number, ack_number, packets, listen,
                   listen_packets, d_pc, d_seg, lower, arrivals_left,
                   udp_local_port, udp_created, udp_c_local_port, buffer, semvars,
                   tabvars, auxvars>>

(* network::udp::client_unbind (lines 172-186) *)
client_unbind ==
    /\ Begin("unbind")
    /\ udp_created /\ udp_in_table
    /\ IF ~udp_connected
       THEN /\ Return("NOT_CONNECTED", 0)
            /\ UNCHANGED <<udp_connected, udp_in_table>>
       ELSE /\ udp_connected' = FALSE
            /\ udp_in_table' = FALSE
            /\ Return("OK", 0)
    /\ UNCHANGED <<local_port, in_table, c_created, c_local_port, listening,
                   connected, seq_number, ack_number, packets, listen,
                   listen_packets, d_pc, d_seg, lower, arrivals_left,
                   udp_local_port, udp_created, udp_c_local_port, buffer, semvars,
                   tabvars, auxvars>>

(* The datagram that send hands to the internet layer: user_prepare_packet *)
(* (lines 124-140) and the copy of the caller's bytes (lines 200-202)      *)
udp_frame_of(data) ==
    [by |-> "udp_send", sport |-> udp_c_local_port, tport |-> udp_server_port,
     length |-> udp_header_size + Len(data), payload |-> data]

(* network::udp::send, lines 188-202: the connected test, the packet *)
udp_send(data) ==
    /\ Begin("udp_send")
    /\ udp_created /\ udp_in_table
    /\ IF ~udp_connected
       THEN Return("NOT_CONNECTED", 0)
       ELSE IF ~ip_prepare_ok
       THEN Return("LOWER_ERROR", 0)
       ELSE /\ p' = udp_frame_of(data)
            /\ pc' = "udp_send_tx"
            /\ UNCHANGED <<result, t, received, l_seq, l_ack, before, after, deadline, recv_n, rec_ack>>
    /\ UNCHANGED <<local_port, in_table, c_created, c_local_port, listening,
                   connected, seq_number, ack_number, packets, listen,
                   listen_packets, d_pc, d_seg, lower, arrivals_left,
                   udp_local_port, udp_in_table, udp_created, udp_c_local_port,
                   udp_connected, buffer, semvars, tabvars, auxvars>>

(* network::udp::send, lines 204-206, and finalize_packet (lines 142-150) *)
udp_send_finalize ==
    /\ pc = "udp_send_tx"
    /\ IF ip_finalize_ok
       THEN /\ sent' = Append(sent, p)
            /\ Return("OK", 0)
       ELSE /\ Return("LOWER_ERROR", 0)
            /\ UNCHANGED sent
    /\ UNCHANGED <<local_port, in_table, c_created, c_local_port, listening,
                   connected, seq_number, ack_number, packets, listen,
                   listen_packets, op, d_pc, d_seg, clock, lower, ops_left,
                   arrivals_left, accepted, delivered, answers, udp_local_port,
                   udp_in_table, udp_created, udp_c_local_port, udp_connected,
                   buffer, semvars, tabvars, auxvars>>

(* receive(buffer, socket, n), lines 212-222: up to the test of the queue *)
udp_receive(n) ==
    /\ Begin("udp_recv")
    /\ udp_created /\ udp_in_table
    /\ IF ~udp_connected
       THEN Return("NOT_CONNECTED", 0)
       ELSE /\ recv_n' = n
            /\ pc' = IF listen_packets = <<>> THEN "udp_recv_enter" ELSE "udp_recv_pop"
            /\ UNCHANGED <<result, p, t, received, l_seq, l_ack, before, after, deadline, rec_ack>>
    /\ UNCHANGED <<local_port, in_table, c_created, c_local_port, listening,
                   connected, seq_number, ack_number, packets, listen,
                   listen_packets, d_pc, d_seg, lower, arrivals_left,
                   udp_local_port, udp_in_table, udp_created, udp_c_local_port,
                   udp_connected, buffer, semvars, tabvars, auxvars>>

(* line 221: listen_queue.wait() *)
udp_recv_wait ==
    /\ pc = "udp_recv_enter"
    /\ pc' = "udp_recv_wait"
    /\ UNCHANGED <<local_port, in_table, c_created, c_local_port, listening,
                   connected, seq_number, ack_number, packets, listen,
                   listen_packets, op, result, p, t, received, l_seq, l_ack,
                   before, after, deadline, recv_n, rec_ack, d_pc, d_seg, clock,
                   lower, sent, ops_left, arrivals_left, accepted, delivered,
                   answers, udp_local_port, udp_in_table, udp_created,
                   udp_c_local_port, udp_connected, buffer, semvars, tabvars,
                   auxvars>>

(* receive(buffer, socket, n, ms), lines 242-258 *)
udp_receive_timed_always_waits(n, ms) ==
    /\ Begin("udp_recv_timed")
    /\ udp_created /\ udp_in_table
    /\ IF ~udp_connected
       THEN Return("NOT_CONNECTED", 0)
       ELSE IF listen_packets # <<>>
       THEN /\ recv_n' = n
            /\ pc' = "udp_recv_pop"
            /\ UNCHANGED <<result, p, t, received, l_seq, l_ack, before, after, deadline, rec_ack>>
       ELSE /\ recv_n' = n
            /\ pc' = "udp_rt_enter"
            /\ deadline' = ms
            /\ UNCHANGED <<result, p, t, received, l_seq, l_ack, before, after, rec_ack>>
    /\ UNCHANGED <<local_port, in_table, c_created, c_local_port, listening,
                   connected, seq_number, ack_number, packets, listen,
                   listen_packets, d_pc, d_seg, lower, arrivals_left,
                   udp_local_port, udp_in_table, udp_created, udp_c_local_port,
                   udp_connected, buffer, semvars, tabvars, auxvars>>

(* receive(buffer, socket, n, ms), lines 242-258 *)
udp_receive_timed(n, ms) ==
    /\ Begin("udp_recv_timed")
    /\ udp_created /\ udp_in_table
    /\ IF ~udp_connected
       THEN Return("NOT_CONNECTED", 0)
       ELSE IF listen_packets # <<>>
       THEN /\ recv_n' = n
            /\ pc' = "udp_recv_pop"
            /\ UNCHANGED <<result, p, t, received, l_seq, l_ack, before, after, deadline, rec_ack>>
       ELSE IF ms = 0
       THEN Return("SOCKET_TIMEOUT", 0)
       ELSE /\ recv_n' = n
            /\ pc' = "udp_rt_enter"
            /\ deadline' = ms
            /\ UNCHANGED <<result, p, t, received, l_seq, l_ack, before, after, rec_ack>>
    /\ UNCHANGED <<local_port, in_table, c_created, c_local_port, listening,
                   connected, seq_number, ack_number, packets, listen,
                   listen_packets, d_pc, d_seg, lower, arrivals_left,
                   udp_local_port, udp_in_table, udp_created, udp_c_local_port,
                   udp_connected, buffer, semvars, tabvars, auxvars>>

(* line 255: listen_queue.wait_for(ms) starts waiting *)
udp_rt_wait ==
    /\ pc = "udp_rt_enter"
    /\ pc' = "udp_rt_wait"
    /\ UNCHANGED <<local_port, in_table, c_created, c_local_port, listening,
                   connected, seq_number, ack_number, packets, listen,
                   listen_packets, op, result, p, t, received, l_seq, l_ack,
                   before, after, deadline, recv_n, rec_ack, d_pc, d_seg, clock,
                   lower, sent, ops_left, arrivals_left, accepted, delivered,
                   answers, udp_local_port, udp_in_table, udp_created,
                   udp_c_local_port, udp_connected, buffer, semvars, tabvars,
                   auxvars>>

(* lines 255-257: wait_for returned false *)
udp_rt_timeout ==
    /\ pc = "udp_rt_wait"
    /\ clock >= deadline
    /\ Return("SOCKET_TIMEOUT", 0)
    /\ UNCHANGED <<local_port, in_table, c_created, c_local_port, listening,
                   connected, seq_number, ack_number, packets, listen,
                   listen_packets, op, d_pc, d_seg, clock, lower, sent, ops_left,
                   arrivals_left, accepted, delivered, answers, udp_local_port,
                   udp_in_table, udp_created, udp_c_local_port, udp_connected,
                   buffer, semvars, tabvars, auxvars>>

(* lines 226-227 and 262-263: the length that receive takes for the         *)
(* payload's is the length field of the datagram's header                  *)
udp_payload_len(packet) == packet.length

(* lines 224-239 and 260-275: take the head packet, hand its payload over *)
udp_recv_pop ==
    /\ pc = "udp_recv_pop"
    /\ listen_packets # <<>>
    /\ listen_packets' = Tail(listen_packets)
    /\ IF udp_payload_len(Head(listen_packets)) > recv_n
       THEN /\ Return("BUFFER_SMALL", 0)
            /\ UNCHANGED buffer
       ELSE /\ Return("OK", udp_payload_len(Head(listen_packets)))
            /\ \E beyond \in BeyondBytes :
                   buffer' = copy_n(Head(listen_packets),
                                    udp_payload_len(Head(listen_packets)), beyond)
    /\ UNCHANGED <<local_port, in_table, c_created, c_local_port, listening,
                   connected, seq_number, ack_number, packets, listen, op, d_pc,
                   d_seg, clock, lower, sent, ops_left, arrivals_left, accepted,
                   delivered, answers, udp_local_port, udp_in_table, udp_created,
                   udp_c_local_port, udp_connected, semvars, tabvars, auxvars>>

-----------------------------------------------------------------------------
(* The connection tables (connection_handler, spec section 4.G) and the     *)
(* creation and removal of connections by connect / disconnect             *)
(* (tcp_layer.cpp) and client_bind / client_unbind (udp_layer.cpp), for    *)
(* several sockets whose callers run concurrently.  The handshake and the  *)
(* teardown exchange of the stream transport are modelled above; here only *)
(* their outcome counts.                                                   *)

Transports == {"tcp", "udp"}

Socks == 1..NSocks

RemotePorts == {udp_server_port, server_port}

(* init_layer of the transport: local_port = 1023 *)
init_port(tr) == IF tr = "tcp" THEN first_local_port ELSE udp_first_local_port

(* A record fresh from create_connection (tcp_layer.cpp:43-65,             *)
(* udp_layer.cpp:23-31): not connected, no socket; local_port and          *)
(* server_port have no initializer, so until connect / client_bind assigns *)
(* them they hold whatever the memory held                                 *)
StaleLocalPorts == {0, first_local_port + 1}

StaleServerPorts == {0, server_port}

NewConnection(stale_local, stale_server) ==
    [live |-> TRUE, local_port |-> stale_local, server_port |-> stale_server,
     connected |-> FALSE, socket |-> 0]

(* connection_handler::get_connection_for_packet (spec section 4.G): scan  *)
(* the live records for one whose server port is the packet's source port  *)
(* and whose local port is the packet's target port; 0 when there is none  *)
tab_matches(tr, source_port, target_port) ==
    {i \in 1..Len(tab_table[tr]) :
        /\ tab_table[tr][i].live
        /\ tab_table[tr][i].server_port = source_port
        /\ tab_table[tr][i].local_port = target_port}

tab_get_connection_for_packet(tr, source_port, target_port) ==
    LET m == tab_matches(tr, source_port, target_port) IN
    IF m = {} THEN 0 ELSE CHOOSE i \in m : \A j \in m : i <= j

(* The connections created so far, in both transports *)
tab_created == Len(tab_table["tcp"]) + Len(tab_table["udp"])

(* The connections whose local port connect / client_bind has assigned *)
tab_numbered(tr) ==
    {i \in 1..Len(tab_table[tr]) :
        ~\E s \in Socks : tab_pc[tr][s] = "created" /\ tab_ref[tr][s] = i}

(* The state after init_layer of both transports *)
TabStart ==
    /\ tab_counter = [tr \in Transports |-> init_port(tr)]
    /\ tab_table = [tr \in Transports |-> <<>>]
    /\ tab_sock = [tr \in Transports |-> [s \in Socks |-> 0]]
    /\ tab_pc = [tr \in Transports |-> [s \in Socks |-> "idle"]]
    /\ tab_ref = [tr \in Transports |-> [s \in Socks |-> 0]]
    /\ tab_remote = [tr \in Transports |-> [s \in Socks |-> 0]]
    /\ tab_assigned = [tr \in Transports |-> <<>>]
    /\ tab_live = [tr \in Transports |-> {}]

(* connect, line 523, and client_bind, line 155: create_connection() *)
tab_create(tr, s, remote) ==
    /\ tab_pc[tr][s] = "idle"
    /\ tab_created < MaxCreates
    /\ \E stale_local \in StaleLocalPorts, stale_server \in StaleServerPorts :
          tab_table' = [tab_table EXCEPT ![tr] =
                           Append(@, NewConnection(stale_local, stale_server))]
    /\ tab_ref' = [tab_ref EXCEPT ![tr][s] = Len(tab_table[tr]) + 1]
    /\ tab_remote' = [tab_remote EXCEPT ![tr][s] = remote]
    /\ tab_pc' = [tab_pc EXCEPT ![tr][s] = "created"]
    /\ UNCHANGED <<tab_counter, tab_sock, tab_assigned, tab_live, semvars, netvars, auxvars>>

(* connect, line 525, and client_bind, line 157:                            *)
(* connection.local_port = ++local_port, an atomic increment               *)
tab_take_port_again(tr, s) ==
    /\ tab_pc[tr][s] = "created"
    /\ tab_counter' = tab_counter
    /\ tab_table' = [tab_table EXCEPT ![tr][tab_ref[tr][s]].local_port = tab_counter[tr] + 1]
    /\ tab_assigned' = [tab_assigned EXCEPT ![tr] = Append(@, tab_counter[tr] + 1)]
    /\ tab_pc' = [tab_pc EXCEPT ![tr][s] = "numbered"]
    /\ UNCHANGED <<tab_sock, tab_ref, tab_remote, tab_live, semvars, netvars, auxvars>>

tab_take_port(tr, s) ==
    /\ tab_pc[tr][s] = "created"
    /\ tab_counter' = [tab_counter EXCEPT ![tr] = @ + 1]
    /\ tab_table' = [tab_table EXCEPT ![tr][tab_ref[tr][s]].local_port = tab_counter[tr] + 1]
    /\ tab_assigned' = [tab_assigned EXCEPT ![tr] = Append(@, tab_counter[tr] + 1)]
    /\ tab_pc' = [tab_pc EXCEPT ![tr][s] = "numbered"]
    /\ UNCHANGED <<tab_sock, tab_ref, tab_remote, tab_live, semvars, netvars, auxvars>>

(* connect, lines 526-531, and client_bind, lines 158-167: the server port, *)
(* the link between socket and connection; client_bind marks the           *)
(* connection connected and returns                                        *)
tab_link(tr, s) ==
    /\ tab_pc[tr][s] = "numbered"
    /\ tab_table' = [tab_table EXCEPT ![tr][tab_ref[tr][s]] =
                        [@ EXCEPT !.server_port = tab_remote[tr][s],
                                  !.socket = s,
                                  !.connected = (tr = "udp")]]
    /\ tab_sock' = [tab_sock EXCEPT ![tr][s] = tab_ref[tr][s]]
    /\ tab_live' = [tab_live EXCEPT ![tr] =
                       @ \cup {<<tab_table[tr][tab_ref[tr][s]].local_port, tab_remote[tr][s]>>}]
    /\ tab_pc' = [tab_pc EXCEPT ![tr][s] = IF tr = "tcp" THEN "handshake" ELSE "idle"]
    /\ tab_ref' = [tab_ref EXCEPT ![tr][s] = IF tr = "tcp" THEN @ ELSE 0]
    /\ tab_remote' = [tab_remote EXCEPT ![tr][s] = 0]
    /\ UNCHANGED <<tab_counter, tab_assigned, semvars, netvars, auxvars>>

(* connect, lines 533-581: the SYN, the wait for the SYN/ACK, the ACK; on   *)
(* success the connection is marked connected, on failure connect returns  *)
(* the error and the connection stays in the table                         *)
tab_handshake(s, ok) ==
    /\ tab_pc["tcp"][s] = "handshake"
    /\ tab_table' = [tab_table EXCEPT !["tcp"][tab_ref["tcp"][s]].connected = ok]
    /\ tab_pc' = [tab_pc EXCEPT !["tcp"][s] = "idle"]
    /\ tab_ref' = [tab_ref EXCEPT !["tcp"][s] = 0]
    /\ UNCHANGED <<tab_counter, tab_sock, tab_remote, tab_assigned, tab_live,
                   semvars, netvars, auxvars>>

(* connection_handler::remove_connection (spec section 4.G) *)
remove_connection(table, i) == [table EXCEPT ![i].live = FALSE]

(* What a removal does to the connection table and to the set of            *)
(* connections set up and not removed                                      *)
tab_remove_forgotten(tr, s) ==
    /\ tab_table' = [tab_table EXCEPT ![tr][tab_sock[tr][s]].connected = FALSE]
    /\ tab_live' = [tab_live EXCEPT ![tr] =
                       @ \ {<<tab_table[tr][tab_sock[tr][s]].local_port,
                              tab_table[tr][tab_sock[tr][s]].server_port>>}]

tab_remove(tr, s) ==
    /\ tab_table' = [tab_table EXCEPT ![tr] =
                        remove_connection([@ EXCEPT ![tab_sock[tr][s]].connected = FALSE],
                                          tab_sock[tr][s])]
    /\ tab_live' = [tab_live EXCEPT ![tr] =
                       @ \ {<<tab_table[tr][tab_sock[tr][s]].local_port,
                              tab_table[tr][tab_sock[tr][s]].server_port>>}]

(* disconnect (tcp_layer.cpp:583-784): refused when not connected; when the *)
(* exchange with the peer succeeds the connection is marked not connected  *)
(* and removed (lines 779-781), else it stays as it is                     *)
tab_disconnect(s, ok) ==
    /\ tab_pc["tcp"][s] = "idle"
    /\ tab_sock["tcp"][s] # 0
    /\ tab_table["tcp"][tab_sock["tcp"][s]].live      \* a dangling connection_data is not followed
    /\ IF tab_table["tcp"][tab_sock["tcp"][s]].connected /\ ok
       THEN tab_remove("tcp", s)
       ELSE UNCHANGED <<tab_table, tab_live>>
    /\ UNCHANGED <<tab_counter, tab_sock, tab_pc, tab_ref, tab_remote, tab_assigned,
                   semvars, netvars, auxvars>>

(* client_unbind (udp_layer.cpp:172-186) *)
tab_unbind(s) ==
    /\ tab_pc["udp"][s] = "idle"
    /\ tab_sock["udp"][s] # 0
    /\ tab_table["udp"][tab_sock["udp"][s]].live      \* a dangling connection_data is not followed
    /\ IF tab_table["udp"][tab_sock["udp"][s]].connected
       THEN tab_remove("udp", s)
       ELSE UNCHANGED <<tab_table, tab_live>>
    /\ UNCHANGED <<tab_counter, tab_sock, tab_pc, tab_ref, tab_remote, tab_assigned,
                   semvars, netvars, auxvars>>

-----------------------------------------------------------------------------
(* ICMP (icmp_layer.cpp): network::icmp::decode and the echo reply *)

IcmpTypes == {"ECHO_REQUEST", "ECHO_REPLY", "UNREACHABLE", "TIME_EXCEEDED", "OTHER"}

(* interface.ip_address, the requester's address, an address that is not   *)
(* the interface's                                                         *)
interface_ip == "10.0.0.1"

requester_ip == "10.0.0.2"

foreign_ip == "10.0.0.7"

(* An ICMP packet as decode reads it: the internet header's addresses, the *)
(* ICMP header's type and code, the echo_request_header in the header's    *)
(* rest (identifier, sequence), and the data behind the header             *)
IcmpPacket(type, target_ip, identifier, sequence, data) ==
    [type |-> type, code |-> 0, source_ip |-> requester_ip, target_ip |-> target_ip,
     rest |-> <<identifier, sequence>>, data |-> data]

IcmpData == {<<>>, <<"a", "b">>}

IcmpArrivals ==
    {IcmpPacket(type, target_ip, identifier, 7, data) :
        type \in IcmpTypes, target_ip \in {interface_ip, foreign_ip},
        identifier \in {1, 2}, data \in IcmpData}

NoIcmpPacket == [type |-> "NONE"]

(* std::expected<network::ethernet::packet>: nothing yet, a packet, an error *)
NoReply == [status |-> "none"]

ReplyError == [status |-> "error"]

(* What the driver gets when finalize_packet is given the packet of an      *)
(* expected that holds an error                                            *)
GarbageFrame == [type |-> "GARBAGE"]

(* network::icmp::kernel_prepare_packet (lines 116-126) for the descriptor *)
(* of line 82, {0, source_ip, ECHO_REPLY, 0}: a packet for the header and  *)
(* payload_size = 0 bytes of data, type and code set by prepare_packet     *)
(* (lines 42-53), the header's rest not yet written                        *)
icmp_kernel_prepare_packet(payload_size, target_ip, type, code) ==
    [status |-> "ok", type |-> type, code |-> code, target_ip |-> target_ip,
     rest |-> <<0, 0>>, data |-> [i \in 1..payload_size |-> 0]]

(* lines 86-89: *reply_command_header = *command_header copies the         *)
(* echo_request_header, that is identifier and sequence                    *)
copy_command_header(reply, packet) == [reply EXCEPT !.rest = packet.rest]

(* The frame that finalize_packet (lines 142-152) hands to the internet    *)
(* layer and so to the driver                                              *)
icmp_frame(reply) ==
    [type |-> reply.type, code |-> reply.code, target_ip |-> reply.target_ip,
     rest |-> reply.rest, data |-> reply.data]

NotIcmp == <<semvars, netvars, tabvars, fdvars, rdvars, relvars>>

(* The state before any ICMP packet has arrived *)
IcmpStart ==
    /\ icmp_pc = "idle"
    /\ icmp_packet = NoIcmpPacket
    /\ icmp_reply = NoReply
    /\ icmp_sent = <<>>

(* decode, lines 57-79 and 97-110: the switch on the type, and for an echo *)
(* request the test of the target address                                  *)
icmp_decode(packet) ==
    /\ icmp_pc = "idle"
    /\ icmp_left > 0
    /\ icmp_left' = icmp_left - 1
    /\ icmp_packet' = packet
    /\ icmp_sent' = <<>>
    /\ icmp_pc' = IF packet.type = "ECHO_REQUEST" /\ packet.target_ip = interface_ip
                  THEN "prepare" ELSE "propagate"
    /\ UNCHANGED <<icmp_reply, icmp_lower, NotIcmp>>

(* decode, lines 82-83: kernel_prepare_packet for the reply *)
icmp_prepare ==
    /\ icmp_pc = "prepare"
    /\ icmp_reply' = IF icmp_lower = "no_prepare"
                     THEN ReplyError
                     ELSE icmp_kernel_prepare_packet(0, icmp_packet.source_ip, "ECHO_REPLY", 0)
    /\ icmp_pc' = "check"
    /\ UNCHANGED <<icmp_packet, icmp_sent, icmp_lower, icmp_left, NotIcmp>>

(* decode, lines 85-92: copy the command header, or log the failure *)
icmp_check ==
    /\ icmp_pc = "check"
    /\ icmp_reply' = IF icmp_reply.status = "ok"
                     THEN copy_command_header(icmp_reply, icmp_packet)
                     ELSE icmp_reply
    /\ icmp_pc' = "finalize"
    /\ UNCHANGED <<icmp_packet, icmp_sent, icmp_lower, icmp_left, NotIcmp>>

(* decode, line 94: finalize_packet(interface, *reply_packet), reached     *)
(* whether or not reply_packet holds a packet.  With a packet: the         *)
(* checksum, then the internet layer, which hands the frame to the driver  *)
(* or fails.  With an error the packet read from the expected is not one:  *)
(* finalize_packet may write through its payload pointer and fault, hand   *)
(* a frame of whatever it found to the driver, or fail in the internet     *)
(* layer.                                                                  *)
icmp_finalize ==
    /\ icmp_pc = "finalize"
    /\ IF icmp_reply.status = "ok"
       THEN /\ icmp_sent' = IF icmp_lower = "no_finalize"
                            THEN icmp_sent
                            ELSE Append(icmp_sent, icmp_frame(icmp_reply))
            /\ icmp_pc' = "propagate"
       ELSE \/ /\ icmp_sent' = Append(icmp_sent, GarbageFrame)
               /\ icmp_pc' = "propagate"
            \/ /\ icmp_sent' = icmp_sent
               /\ icmp_pc' = "propagate"
            \/ /\ icmp_sent' = icmp_sent
               /\ icmp_pc' = "fault"
    /\ UNCHANGED <<icmp_packet, icmp_reply, icmp_lower, icmp_left, NotIcmp>>

(* decode, line 113: propagate_packet, and the return *)
icmp_propagate ==
    /\ icmp_pc = "propagate"
    /\ icmp_pc' = "idle"
    /\ icmp_reply' = NoReply
    /\ UNCHANGED <<icmp_packet, icmp_sent, icmp_lower, icmp_left, NotIcmp>>

-----------------------------------------------------------------------------
(* The prepared packets of a socket (socket.hpp): register_packet,         *)
(* has_packet, get_packet, erase_packet                                    *)

(* The next_fd argument a socket is constructed with (line 45) *)
InitialFds == {0, 3}

(* What tells two prepared packets apart besides their fd *)
PacketBodies == {"a", "b"}

(* The descriptors a caller may ask about *)
FdRange == 0..(3 + MaxFdCalls)

NotFd == <<semvars, netvars, tabvars, icmpvars, rdvars, relvars>>

(* A socket as constructed: no prepared packets *)
FdStart ==
    /\ next_fd \in InitialFds
    /\ sock_packets = <<>>
    /\ fd_returned = <<>>
    /\ fd_registered = {}

(* socket::register_packet (lines 66-74) *)
register_packet_same_fd(packet) ==
    /\ fd_left > 0
    /\ fd_left' = fd_left - 1
    /\ next_fd' = next_fd
    /\ sock_packets' = Append(sock_packets, [packet EXCEPT !.fd = next_fd])
    /\ fd_returned' = Append(fd_returned, next_fd)
    /\ fd_registered' = fd_registered \cup {next_fd}
    /\ UNCHANGED NotFd

register_packet(packet) ==
    /\ fd_left > 0
    /\ fd_left' = fd_left - 1
    /\ next_fd' = next_fd + 1
    /\ sock_packets' = Append(sock_packets, [packet EXCEPT !.fd = next_fd])
    /\ fd_returned' = Append(fd_returned, next_fd)
    /\ fd_registered' = fd_registered \cup {next_fd}
    /\ UNCHANGED NotFd

(* socket::has_packet (lines 79-87) *)
has_packet(packet_fd) == \E i \in 1..Len(sock_packets) : sock_packets[i].fd = packet_fd

(* socket::get_packet (lines 92-100): the first packet with the fd *)
get_packet(fd) ==
    sock_packets[CHOOSE i \in 1..Len(sock_packets) :
                    /\ sock_packets[i].fd = fd
                    /\ \A j \in 1..(i - 1) : sock_packets[j].fd # fd]

(* std::remove_if followed by vector::erase (lines 106-108): the elements  *)
(* for which the predicate does not hold, in their order                   *)
erase_remove_if(v, fd) ==
    LET keeps(packet) == packet.fd # fd IN SelectSeq(v, keeps)

(* socket::erase_packet (lines 105-109) *)
erase_packet(fd) ==
    /\ fd_left > 0
    /\ fd_left' = fd_left - 1
    /\ sock_packets' = erase_remove_if(sock_packets, fd)
    /\ fd_registered' = fd_registered \ {fd}
    /\ UNCHANGED <<next_fd, fd_returned, NotFd>>

-----------------------------------------------------------------------------
(* Several readers of one socket: the part of network::tcp::receive        *)
(* (tcp_layer.cpp:309-313 and 338-348) and network::udp::receive           *)
(* (udp_layer.cpp:220-224 and 250-260) between the test of the listen      *)
(* queue and the pop, with the decode path pushing and notifying           *)
(* (tcp_layer.cpp:239-246, udp_layer.cpp:111-116).  The condition variable *)
(* is the one of spec section 4.C: wait and wait_for put the caller on the *)
(* queue of waiters; notify_one wakes the first waiter and does nothing    *)
(* when there is none; wait_for returns false when its time is over.       *)

Readers == 1..NReaders

ReaderPackets == {"p1", "p2"}

NoPacketTaken == "none"

(* What pop returns for an empty circular_buffer: not a packet that was    *)
(* pushed and not yet taken                                                *)
StalePacket == "stale"

NotRd == <<semvars, netvars, tabvars, icmpvars, fdvars, relvars>>

(* A connected socket in listen mode, nothing queued, nobody reading *)
RdStart ==
    /\ rd_pc = [r \in Readers |-> "idle"]
    /\ rd_packets = <<>>
    /\ rd_waiting = <<>>
    /\ rd_got = [r \in Readers |-> NoPacketTaken]

(* receive, up to the test of the queue: tcp_layer.cpp:301-309 (untimed),  *)
(* 330-341 (timed); ms = 0 on an empty queue returns SOCKET_TIMEOUT        *)
rd_receive(r, timed, ms) ==
    /\ rd_pc[r] = "idle"
    /\ rd_calls > 0
    /\ rd_calls' = rd_calls - 1
    /\ rd_got' = [rd_got EXCEPT ![r] = NoPacketTaken]
    /\ rd_pc' = [rd_pc EXCEPT ![r] =
                    IF rd_packets # <<>> THEN "pop"
                    ELSE IF ~timed THEN "enter"
                    ELSE IF ms = 0 THEN "idle"
                    ELSE "enter_for"]
    /\ UNCHANGED <<rd_packets, rd_waiting, rd_left, NotRd>>

(* listen_queue.wait() / wait_for(ms): the caller joins the waiters *)
rd_wait(r) ==
    /\ rd_pc[r] \in {"enter", "enter_for"}
    /\ rd_waiting' = Append(rd_waiting, r)
    /\ rd_pc' = [rd_pc EXCEPT ![r] = IF rd_pc[r] = "enter" THEN "wait" ELSE "wait_for"]
    /\ UNCHANGED <<rd_packets, rd_got, rd_left, rd_calls, NotRd>>

(* wait_for returns false: the time is over before a notification; receive *)
(* returns SOCKET_TIMEOUT (tcp_layer.cpp:343-345, udp_layer.cpp:255-257)   *)
rd_timeout(r) ==
    /\ rd_pc[r] = "wait_for"
    /\ rd_waiting' = SelectSeq(rd_waiting, LAMBDA w : w # r)
    /\ rd_pc' = [rd_pc EXCEPT ![r] = "idle"]
    /\ UNCHANGED <<rd_packets, rd_got, rd_left, rd_calls, NotRd>>

(* The decode path: listen_packets.push(copy); listen_queue.notify_one()   *)
(* (tcp_layer.cpp:244-245, udp_layer.cpp:115-116).  The first waiter is    *)
(* made ready to run and will go on to the pop.                            *)
rd_decode(packet) ==
    /\ rd_left > 0
    /\ rd_left' = rd_left - 1
    /\ rd_packets' = Append(rd_packets, packet)
    /\ IF rd_waiting # <<>>
       THEN /\ rd_waiting' = Tail(rd_waiting)
            /\ rd_pc' = [rd_pc EXCEPT ![Head(rd_waiting)] = "pop"]
       ELSE UNCHANGED <<rd_waiting, rd_pc>>
    /\ UNCHANGED <<rd_got, rd_calls, NotRd>>

(* auto packet = socket.listen_packets.pop() (tcp_layer.cpp:313 and 348,   *)
(* udp_layer.cpp:224 and 260), and the rest of receive                     *)
rd_pop(r) ==
    /\ rd_pc[r] = "pop"
    /\ IF rd_packets # <<>>
       THEN /\ rd_got' = [rd_got EXCEPT ![r] = Head(rd_packets)]
            /\ rd_packets' = Tail(rd_packets)
       ELSE /\ rd_got' = [rd_got EXCEPT ![r] = StalePacket]
            /\ rd_packets' = rd_packets
    /\ rd_pc' = [rd_pc EXCEPT ![r] = "idle"]
    /\ UNCHANGED <<rd_waiting, rd_left, rd_calls, NotRd>>

-----------------------------------------------------------------------------
(* The parts of the state a specification does not use stay as they start *)

IcmpQuiet == IcmpStart /\ icmp_lower = "ok" /\ icmp_left = 0

FdQuiet == FdStart /\ next_fd = 0 /\ fd_left = 0

RdQuiet == RdStart /\ rd_left = 0 /\ rd_calls = 0

RelQuiet == rel_args = <<>>

AuxQuiet == IcmpQuiet /\ FdQuiet /\ RdQuiet /\ RelQuiet

Elsewhere == SemQuiet /\ TcpQuiet /\ TabStart /\ RelQuiet

-----------------------------------------------------------------------------
(* The stream transport as a whole *)

TcpInit == TcpStart /\ SemQuiet /\ TabStart /\ AuxQuiet

TcpNext ==
    \/ \E seg \in PeerSegments : decode_lookup(seg)
    \/ decode_deliver
    \/ Tick
    \/ connect
    \/ \E data \in Payloads : send(data)
    \/ fin_listen
    \/ fin_transmit
    \/ fin_check
    \/ fin_timeout
    \/ fin_pop
    \/ fin_stop
    \/ fin_ack
    \/ con_ack
    \/ con_mark
    \/ \E n \in RecvSizes : receive(n)
    \/ recv_wait
    \/ \E n \in RecvSizes, ms \in {0, timeout_ms} : receive_timed(n, ms)
    \/ rt_wait
    \/ rt_timeout
    \/ recv_pop
    \/ disconnect
    \/ dis_transmit
    \/ dis_check
    \/ dis_timeout
    \/ dis_pop
    \/ dis_after
    \/ dis2_check
    \/ dis2_timeout
    \/ dis2_pop
    \/ dis_fin

TcpSpec == TcpInit /\ [][TcpNext]_vars

-----------------------------------------------------------------------------
(* One send on an established connection while the peer sends a burst of    *)
(* segments for it                                                         *)

FloodSegments == {Ack}

AckFloodInit ==
    /\ Established
    /\ UdpFresh
    /\ AtRest
    /\ listen = FALSE
    /\ lower = "ok"
    /\ ops_left = 1
    /\ arrivals_left = MaxAckFlood
    /\ SemQuiet /\ TabStart /\ AuxQuiet

AckFloodNext ==
    \/ \E seg \in FloodSegments : decode_lookup(seg)
    \/ decode_deliver
    \/ Tick
    \/ \E data \in Payloads : send(data)
    \/ fin_listen
    \/ fin_transmit
    \/ fin_check
    \/ fin_timeout
    \/ fin_pop
    \/ fin_stop
    \/ fin_ack

AckFloodSpec == AckFloodInit /\ [][AckFloodNext]_vars

-----------------------------------------------------------------------------
(* The datagram transport as a whole: one socket, bound and unbound, and   *)
(* the datagrams of the peer                                               *)

DgStart ==
    /\ Fresh
    /\ UdpFresh
    /\ AtRest
    /\ listen \in BOOLEAN
    /\ lower \in {"ok", "no_prepare", "no_finalize"}
    /\ ops_left = MaxRecvOps + 1
    /\ arrivals_left = MaxRecvArrivals

DgInit == DgStart /\ SemQuiet /\ TabStart /\ AuxQuiet

DgNext ==
    \/ \E dg \in PeerDatagrams : udp_decode(dg)
    \/ Tick
    \/ client_bind
    \/ client_bind_connected
    \/ client_unbind
    \/ \E data \in Payloads : udp_send(data)
    \/ udp_send_finalize
    \/ \E n \in DgramRecvSizes : udp_receive(n)
    \/ udp_recv_wait
    \/ \E n \in DgramRecvSizes, ms \in {0, timeout_ms} : udp_receive_timed(n, ms)
    \/ udp_rt_wait
    \/ udp_rt_timeout
    \/ udp_recv_pop

DgSpec == DgInit /\ [][DgNext]_vars

-----------------------------------------------------------------------------
(* A caller that only receives, on a stream socket or on a datagram socket *)

StreamRecvStart ==
    /\ Established
    /\ UdpFresh
    /\ AtRest
    /\ listen \in BOOLEAN
    /\ lower \in {"ok", "no_prepare", "no_finalize"}
    /\ ops_left = MaxRecvOps
    /\ arrivals_left = MaxRecvArrivals

StreamData == {Data, Data2, Ack}

StreamRecvSizes == RecvSizes \cup {2}

RecvInit == (StreamRecvStart \/ DgStart) /\ SemQuiet /\ TabStart /\ AuxQuiet

RecvNext ==
    \/ \E seg \in StreamData : decode_lookup(seg)
    \/ decode_deliver
    \/ \E n \in StreamRecvSizes : receive(n)
    \/ recv_wait
    \/ \E n \in StreamRecvSizes, ms \in {0, timeout_ms} : receive_timed(n, ms)
    \/ rt_wait
    \/ rt_timeout
    \/ recv_pop
    \/ DgNext

RecvSpec == RecvInit /\ [][RecvNext]_vars

-----------------------------------------------------------------------------
(* A socket in listen mode, on an established stream connection or bound   *)
(* as a datagram socket, whose peer sends more packets than the caller     *)
(* reads                                                                   *)

ListenFloodInit ==
    /\ \/ Established /\ ops_left = 1
       \/ Fresh /\ ops_left = 2
    /\ UdpFresh
    /\ AtRest
    /\ listen = TRUE
    /\ lower = "ok"
    /\ arrivals_left = MaxListenFlood
    /\ SemQuiet /\ TabStart /\ AuxQuiet

ListenFloodNext ==
    \/ decode_lookup(Data)
    \/ decode_deliver
    \/ \E n \in RecvSizes : receive(n)
    \/ recv_wait
    \/ recv_pop
    \/ client_bind
    \/ client_bind_connected
    \/ udp_decode(Ping)
    \/ \E n \in DgramRecvSizes : udp_receive(n)
    \/ udp_recv_wait
    \/ udp_recv_pop

ListenFloodSpec == ListenFloodInit /\ [][ListenFloodNext]_vars

-----------------------------------------------------------------------------
(* The connection tables as a whole *)

TabInit == TabStart /\ SemQuiet /\ TcpQuiet /\ AuxQuiet

TabNext ==
    \/ \E tr \in Transports, s \in Socks, remote \in RemotePorts : tab_create(tr, s, remote)
    \/ \E tr \in Transports, s \in Socks : tab_take_port(tr, s)
    \/ \E tr \in Transports, s \in Socks : tab_link(tr, s)
    \/ \E s \in Socks, ok \in BOOLEAN : tab_handshake(s, ok)
    \/ \E s \in Socks, ok \in BOOLEAN : tab_disconnect(s, ok)
    \/ \E s \in Socks : tab_unbind(s)

TabSpec == TabInit /\ [][TabNext]_vars

-----------------------------------------------------------------------------
(* ICMP as a whole *)

IcmpInit ==
    /\ IcmpStart
    /\ icmp_lower \in {"ok", "no_prepare", "no_finalize"}
    /\ icmp_left = MaxIcmpArrivals
    /\ FdQuiet /\ RdQuiet /\ Elsewhere

IcmpNext ==
    \/ \E packet \in IcmpArrivals : icmp_decode(packet)
    \/ icmp_prepare
    \/ icmp_check
    \/ icmp_finalize
    \/ icmp_propagate

IcmpSpec == IcmpInit /\ [][IcmpNext]_vars

-----------------------------------------------------------------------------
(* The prepared packets of a socket as a whole *)

FdInit == FdStart /\ fd_left = MaxFdCalls /\ IcmpQuiet /\ RdQuiet /\ Elsewhere

FdNext ==
    \/ \E body \in PacketBodies : register_packet([fd |-> 0, body |-> body])
    \/ \E fd \in FdRange : erase_packet(fd)

FdSpec == FdInit /\ [][FdNext]_vars

-----------------------------------------------------------------------------
(* Several readers of one socket as a whole *)

RdInit ==
    /\ RdStart
    /\ rd_left = MaxReaderArrivals
    /\ rd_calls = MaxReaderCalls
    /\ IcmpQuiet /\ FdQuiet /\ Elsewhere

RdNext ==
    \/ \E r \in Readers, timed \in BOOLEAN, ms \in {0, timeout_ms} : rd_receive(r, timed, ms)
    \/ \E r \in Readers : rd_wait(r)
    \/ \E r \in Readers : rd_timeout(r)
    \/ \E packet \in ReaderPackets : rd_decode(packet)
    \/ \E r \in Readers : rd_pop(r)

RdSpec == RdInit /\ [][RdNext]_vars

-----------------------------------------------------------------------------
(* The semaphore as a whole *)

SemInit == SemStart /\ TcpQuiet /\ TabStart /\ AuxQuiet

SemNext ==
    \E q \in Procs :
        \/ lock(q)
        \/ reschedule(q)
        \/ resume(q)
        \/ try_lock(q)
        \/ unlock(q)
        \/ signal(q)
        \/ irq_unlock

SemSpec == SemInit /\ [][SemNext]_vars

(* Fair scheduling: a runnable process gets to run, and every process that *)
(* holds a permit eventually calls unlock.                                 *)
SemFairSpec ==
    /\ SemInit
    /\ [][SemNext]_vars
    /\ \A q \in Procs : WF_vars(reschedule(q)) /\ WF_vars(resume(q)) /\ WF_vars(unlock(q))

(* The semaphore with all its operations, release and irq_release included *)
RelNext ==
    \E q \in Procs :
        \/ lock(q)
        \/ reschedule(q)
        \/ resume(q)
        \/ try_lock(q)
        \/ unlock(q)
        \/ signal(q)
        \/ irq_unlock
        \/ \E n \in 0..MaxRelease : release(q, n)
        \/ \E n \in 0..MaxRelease : irq_release(n)

RelSpec == SemInit /\ [][RelNext]_vars

-----------------------------------------------------------------------------
(* Who holds a permit: a process that returned from lock/try_lock with one,*)
(* or a waiter that unlock has dequeued (the permit was handed to it).     *)

Holds(pid) ==
    \/ sem_pc[pid] = "held"
    \/ sem_pc[pid] \in {"resched", "asleep"} /\ ~blocked[pid]

Holders == {pid \in Procs : Holds(pid)}

Waits(pid) == sem_pc[pid] \in {"resched", "asleep"}

-----------------------------------------------------------------------------
(* C1: with processes unlocking only permits they hold (no signal calls),  *)
(* the processes that have acquired and not yet released a permit, plus    *)
(* the permits still in the counter, never number more than the initial    *)
(* value V: at most V processes hold a permit at once, and a permit that   *)
(* unlock handed to a dequeued waiter is not also left in the counter for  *)
(* a concurrent lock or try_lock to claim.                                 *)
C1_AtMostVHolders ==
    ext_unlocks = 0 => Cardinality(Holders) + value <= init_value

(* A waiter received its permit from unlock while as many processes as     *)
(* there are permits hold one and another process is still queued.         *)
C1_Witness ==
    /\ ext_unlocks = 0
    /\ init_value >= 1
    /\ wake_order # <<>>
    /\ Cardinality(Holders) = init_value
    /\ queue # <<>>

(* C2: unlock wakes the processes blocked in lock in the order in which    *)
(* they called lock (FIFO): the sequence of woken pids is always a prefix  *)
(* of the sequence of pids that enqueued themselves.                       *)
C2_FifoWakeOrder ==
    /\ Len(wake_order) <= Len(lock_order)
    /\ \A i \in 1..Len(wake_order) : wake_order[i] = lock_order[i]

(* P1, P2, P3 blocked in that order on a semaphore of value 0 and three    *)
(* unlock calls woke all three.                                            *)
C2_Witness ==
    /\ init_value = 0
    /\ lock_order = <<1, 2, 3>>
    /\ wake_order = <<1, 2, 3>>

(* C3 as stated: under fair scheduling, with every holder eventually       *)
(* calling unlock, every process that waits in lock eventually acquires a  *)
(* permit.                                                                 *)
C3_NoWaiterStarves ==
    \A pid \in Procs : Waits(pid) ~> (sem_pc[pid] = "held")

(* C3 amended: the same, for a semaphore initialised with at least one     *)
(* permit (V >= 1).                                                        *)
C3_NoWaiterStarvesWithPermits ==
    \A pid \in Procs : (init_value >= 1 /\ Waits(pid)) ~> (sem_pc[pid] = "held")

(* A process that went to sleep in lock on a semaphore initialised with a  *)
(* permit was woken and holds the permit.                                  *)
C3_Witness ==
    /\ init_value >= 1
    /\ wake_order # <<>>
    /\ sem_pc[Head(wake_order)] = "held"
    /\ Len(queue) >= 1
-----------------------------------------------------------------------------
(* Observations on the stream transport *)

(* The frames that function `by` handed to the internet layer since the     *)
(* operation began, in order                                               *)
FramesBy(by) == SelectSeq(sent, LAMBDA f : f.by = by)

IsSynAck(seg) == "SYN" \in seg.flags /\ "ACK" \in seg.flags

(* The caller is inside the retry loop of finalize_packet (lines 419-499)  *)
InRetry == op \in {"send", "connect"} /\ pc \in {"fin_tx", "fin_chk", "fin_wait", "fin_pop"}

(* The step is one of the decode path handling a packet of the connection  *)
DecodeStep == d_pc' # d_pc

(* ... and this is the packet it handles *)
DecodedSegment == IF d_pc = "idle" THEN d_seg' ELSE d_seg

-----------------------------------------------------------------------------
(* C4 as stated: in a connect, once finalize_packet has accepted a         *)
(* SYN+ACK(s, a) the connection's seq is a and its ack is s+1; a connect   *)
(* that returned success accepted a SYN+ACK, transmitted its SYNs before   *)
(* exactly one bare ACK, that ACK carries seq = a and ack = s+1, the       *)
(* connection is marked connected and the value returned is the local      *)
(* port; the connection is never marked connected without an accepted      *)
(* SYN+ACK.                                                                *)
C4_ConnectOrder ==
    op = "connect" =>
        /\ connected => IsSynAck(accepted)
        /\ pc = "con_ack" =>
               /\ seq_number = accepted.ack
               /\ ack_number = Add32(accepted.seq, 1)
        /\ (pc = "idle" /\ result.code = "OK") =>
               /\ IsSynAck(accepted)
               /\ \A i, j \in 1..Len(sent) :
                      (sent[i].by = "finalize" /\ sent[j].by = "connect") => i < j
               /\ \A i \in 1..Len(sent) :
                      sent[i].by = "finalize" => sent[i].flags = {"SYN"}
               /\ FramesBy("connect") =
                      <<Frame("connect", c_local_port, server_port, {"ACK"},
                              accepted.ack, Add32(accepted.seq, 1), <<>>)>>
               /\ connected
               /\ result.val = c_local_port

-----------------------------------------------------------------------------
(* C5: when the internet layer accepts every frame and no SYN+ACK is        *)
(* delivered to the connection, connect never marks the connection         *)
(* connected and transmits no bare ACK, never transmits more than          *)
(* max_tries frames, and when it has returned it has transmitted the SYN   *)
(* exactly max_tries times and returned TCP_ERROR.                         *)
C5_NoSynAckExhaustsRetries ==
    (op = "connect" /\ lower = "ok" /\ \A seg \in delivered : ~IsSynAck(seg)) =>
        /\ ~connected
        /\ FramesBy("connect") = <<>>
        /\ Len(FramesBy("finalize")) <= max_tries
        /\ pc = "idle" =>
               /\ result = Ret("TCP_ERROR", 0)
               /\ Len(FramesBy("finalize")) = max_tries
               /\ \A i \in 1..max_tries : FramesBy("finalize")[i].flags = {"SYN"}

(* connect gave up after max_tries SYNs although packets without SYN+ACK   *)
(* were delivered to the connection meanwhile.                             *)
C5_Witness ==
    /\ op = "connect"
    /\ lower = "ok"
    /\ pc = "idle"
    /\ result.code = "TCP_ERROR"
    /\ delivered # {}
    /\ \A seg \in delivered : ~IsSynAck(seg)
    /\ Len(FramesBy("finalize")) = max_tries

-----------------------------------------------------------------------------
(* C6: a send, receive, timed receive or disconnect started on a socket    *)
(* whose connection is not marked connected returns NOT_CONNECTED in that  *)
(* very step, has transmitted no frame, dequeues no packet from the listen *)
(* queue or the ack-queue, and leaves seq_number, ack_number, listening    *)
(* and the connection's presence in the table unchanged.                   *)
C6_NotConnectedRefused ==
    [][(/\ ops_left' < ops_left
        /\ op' \in {"send", "recv", "recv_timed", "disconnect"}
        /\ ~connected)
       => /\ result' = Ret("NOT_CONNECTED", 0)
          /\ pc' = "idle"
          /\ sent' = <<>>
          /\ UNCHANGED <<listen_packets, packets, seq_number, ack_number,
                         listening, in_table, connected>>]_vars

(* A disconnect was refused on the connection left by a failed connect,    *)
(* during which decode had stored a packet's numbers.                      *)
C6_Witness ==
    /\ op = "disconnect"
    /\ pc = "idle"
    /\ result = Ret("NOT_CONNECTED", 0)
    /\ in_table
    /\ ~connected
    /\ seq_number # W(0)

-----------------------------------------------------------------------------
(* C7 as stated: in the step in which a send returns success, seq_number   *)
(* is the acknowledgement number of the packet accepted as acknowledgement *)
(* and ack_number is that packet's sequence number plus 1 modulo 2^32.     *)
C7_SendStoresAcceptedNumbers ==
    [][(op = "send" /\ pc = "fin_ack" /\ pc' = "idle")
       => /\ result' = Ret("OK", 0)
          /\ seq_number' = accepted.ack
          /\ ack_number' = Add32(accepted.seq, 1)]_vars

-----------------------------------------------------------------------------
-----------------------------------------------------------------------------
(* C9 as stated: the timer time that a send, connect or disconnect has     *)
(* spent waiting never exceeds max_tries * timeout_ms.                     *)
C9_WaitBounded ==
    op \in {"send", "connect", "disconnect"} => clock <= max_tries * timeout_ms

-----------------------------------------------------------------------------
(* C10 as stated: the frames finalize_packet transmits are identical, at   *)
(* most max_tries, and when its loop is over their number is 1 plus the    *)
(* number of attempts that ended without a matching acknowledgement.       *)
C10_TransmissionsOnePlusFailed ==
    LET tx == FramesBy("finalize") IN
    op \in {"send", "connect"} =>
        /\ \A i \in 1..Len(tx) : tx[i] = tx[1]
        /\ Len(tx) <= max_tries
        /\ pc \in {"fin_stop", "fin_ack"} => Len(tx) = 1 + t

(* C10 amended: the frames finalize_packet transmits are identical (same   *)
(* seq, ack, flags and payload) and at most max_tries; each attempt        *)
(* transmits once; when the loop ends with a matching acknowledgement      *)
(* their number is 1 plus the number of attempts that ended without one,   *)
(* and when all max_tries attempts end without one it is max_tries, the    *)
(* number of those attempts.                                               *)
C10_TransmissionsPerAttempt ==
    LET tx == FramesBy("finalize") IN
    op \in {"send", "connect"} =>
        /\ \A i \in 1..Len(tx) : tx[i] = tx[1]
        /\ Len(tx) <= max_tries
        /\ pc = "fin_tx" => Len(tx) = t
        /\ pc \in {"fin_chk", "fin_wait", "fin_pop"} => Len(tx) = t + 1
        /\ (pc \in {"fin_stop", "fin_ack"} /\ received) => Len(tx) = t + 1
        /\ (pc = "fin_stop" /\ ~received) => (t = max_tries /\ Len(tx) = max_tries)

(* One attempt of a send timed out, the next one got the acknowledgement:  *)
(* two identical PSH|ACK frames with the payload are out.                  *)
C10_Witness ==
    /\ op = "send"
    /\ pc = "fin_stop"
    /\ received
    /\ accepted = Ack
    /\ t = 1
    /\ Len(FramesBy("finalize")) = 2
    /\ FramesBy("finalize")[1] = FramesBy("finalize")[2]
    /\ FramesBy("finalize")[1].flags = {"PSH", "ACK"}
    /\ FramesBy("finalize")[1].payload = <<"x", "y", "z">>
    /\ delivered # {Ack}

-----------------------------------------------------------------------------
(* Observations on disconnect *)

IsFinAck(seg) == "FIN" \in seg.flags /\ "ACK" \in seg.flags

(* The caller is in the wait for the FIN|ACK that follows a bare ACK        *)
(* (lines 699-749)                                                         *)
InSecondWait == op = "disconnect" /\ pc \in {"dis2_chk", "dis2_wait", "dis2_pop"}

(* The step is the return of an operation that had to wait *)
ReturnStep == pc # "idle" /\ pc' = "idle"

-----------------------------------------------------------------------------
(* C11 as stated: a disconnect on a connected connection whose FIN|ACK the *)
(* peer answered with a single FIN|ACK, or with an ACK followed by a       *)
(* FIN|ACK, put on the ack-queue after the FIN|ACK went out, returns       *)
(* success: it has transmitted FIN|ACK frames and then exactly one bare    *)
(* ACK, after it took a FIN|ACK from the ack-queue, the connection is not  *)
(* connected, it is out of the connection table and the lookup does not    *)
(* find it.                                                                *)
C11_DisconnectCompletes ==
    [][(/\ op = "disconnect"
        /\ ReturnStep
        /\ lower = "ok"
        /\ FinAck \in answers
        /\ delivered \subseteq {Ack, FinAck})
       => /\ result' = Ret("OK", 0)
          /\ IsFinAck(accepted')
          /\ Len(SelectSeq(sent', LAMBDA f : f.by = "disconnect_ack")) = 1
          /\ \A i \in 1..Len(sent') :
                 /\ sent'[i].by = "disconnect_ack" => sent'[i].flags = {"ACK"}
                 /\ sent'[i].by = "disconnect" =>
                        /\ sent'[i].flags = {"FIN", "ACK"}
                        /\ \E j \in (i + 1)..Len(sent') : sent'[j].by = "disconnect_ack"
          /\ \E i \in 1..Len(sent') : sent'[i].by = "disconnect"
          /\ ~connected'
          /\ ~in_table'
          /\ ~(get_connection_for_packet(server_port, c_local_port))'
      ]_vars

-----------------------------------------------------------------------------
(* C12 as stated: once disconnect has got a bare ACK for its FIN|ACK, and  *)
(* as long as no FIN|ACK has arrived for the connection, it waits no more  *)
(* than one additional timeout_ms, whatever other packets arrive; when it  *)
(* returns it returns TCP_ERROR, has transmitted no final ACK and leaves   *)
(* the connection connected and in the connection table.                   *)
C12_SecondWaitOneWindow ==
    [][(InSecondWait /\ \A seg \in delivered : ~IsFinAck(seg))
       => /\ clock' <= before + timeout_ms
          /\ ReturnStep =>
                 /\ result' = Ret("TCP_ERROR", 0)
                 /\ SelectSeq(sent', LAMBDA f : f.by = "disconnect_ack") = <<>>
                 /\ connected'
                 /\ in_table'
      ]_vars

-----------------------------------------------------------------------------
-----------------------------------------------------------------------------
(* C14: the ack-queue of the connection changes only by the decode path    *)
(* appending the packet it handles at the tail, which it does for every    *)
(* packet it handles while the connection is listening, and by the waiting *)
(* operation taking the packet at the head, which is the packet it         *)
(* examines; an operation that was woken finds a packet to take.           *)
C14_AckQueueFifo ==
    /\ [](pc \in {"fin_pop", "dis_pop", "dis2_pop"} => packets # <<>>)
    /\ [][(d_pc = "update" /\ d_pc' = "idle" /\ listening)
            => packets' = Append(packets, d_seg)]_vars
    /\ [][packets' # packets
            => \/ /\ d_pc = "update" /\ d_pc' = "idle" /\ listening
                  /\ packets' = Append(packets, d_seg)
               \/ /\ pc \in {"fin_pop", "dis_pop", "dis2_pop"} /\ pc' # pc
                  /\ packets' = Tail(packets)
                  /\ (received' /\ ~received) => accepted' = Head(packets)]_vars

(* Two packets were pushed while a send was listening; the send examined   *)
(* the first, which was no acknowledgement, then the second.               *)
C14_Witness ==
    /\ op = "send"
    /\ pc = "fin_stop"
    /\ delivered = {Rst, Ack}
    /\ accepted = Ack
    /\ packets = <<>>
    /\ t = 0

-----------------------------------------------------------------------------
(* Observations on receive, for both transports *)

(* The caller is about to take a packet from the listen queue *)
AtListenPop == pc \in {"recv_pop", "udp_recv_pop"}

(* The step is receive taking a packet from the listen queue and returning *)
ListenPopStep == AtListenPop /\ pc' = "idle"

(* The step is the call of a timed receive on a connected socket *)
TimedRecvCall ==
    /\ ops_left' < ops_left
    /\ \/ op' = "recv_timed" /\ connected
       \/ op' = "udp_recv_timed" /\ udp_connected

(* The caller is in, or about to enter, listen_queue.wait_for(ms) *)
InTimedRecvWait == pc \in {"rt_enter", "rt_wait", "udp_rt_enter", "udp_rt_wait"}

(* The step is the stream decode path ending its work on a PSH segment of  *)
(* the connection, the socket being in listen mode                         *)
StreamEnqueueStep ==
    d_pc = "update" /\ d_pc' = "idle" /\ "PSH" \in d_seg.flags /\ listen

(* The step is the datagram decode path handling datagram dg, which is for *)
(* the socket's connection, the socket being in listen mode                *)
DgramEnqueueStep(dg) ==
    /\ arrivals_left' < arrivals_left
    /\ d_pc' = d_pc
    /\ d_pc = "idle"
    /\ udp_get_connection_for_packet(dg.sport, dg.tport)
    /\ listen

-----------------------------------------------------------------------------
(* C15: the listen queue of a socket changes only by the decode path       *)
(* appending, at the tail, a PSH segment or a datagram it received for the *)
(* socket's connection while the socket is in listen mode (which it does   *)
(* for every one of them), and by receive taking the packet at the head;   *)
(* a receive that returns success hands over the bytes of the payload of   *)
(* the packet it took; a receive that gets to take a packet finds one.     *)
C15_ListenQueueFifo ==
    /\ [](AtListenPop => listen_packets # <<>>)
    /\ [][StreamEnqueueStep => listen_packets' = Append(listen_packets, d_seg)]_vars
    /\ [][listen_packets' # listen_packets
            => \/ StreamEnqueueStep /\ listen_packets' = Append(listen_packets, d_seg)
               \/ \E dg \in PeerDatagrams :
                      DgramEnqueueStep(dg) /\ listen_packets' = Append(listen_packets, dg)
               \/ /\ ListenPopStep
                  /\ listen_packets' = Tail(listen_packets)
                  /\ result'.code = "OK" =>
                         /\ Len(buffer') >= Len(Head(listen_packets).payload)
                         /\ SubSeq(buffer', 1, Len(Head(listen_packets).payload))
                                = Head(listen_packets).payload]_vars

(* Two PSH segments with different payloads were queued; the first receive *)
(* returned the first payload and left the second at the head.             *)
C15_Witness ==
    /\ op = "recv"
    /\ pc = "idle"
    /\ result = Ret("OK", 2)
    /\ buffer = Data.payload
    /\ listen_packets = <<Data2>>

-----------------------------------------------------------------------------
(* C16: a timed receive that waits was called with ms > 0; called on a     *)
(* connected socket with an empty listen queue it either returns           *)
(* SOCKET_TIMEOUT in the call (ms = 0) or starts a wait that ends at the   *)
(* deadline ms > 0, and leaves the queue as it is; called with a packet in *)
(* the queue it goes to take the head packet without waiting; a wait that  *)
(* reaches its deadline without a notification returns SOCKET_TIMEOUT and  *)
(* leaves the queue as it is.                                              *)
C16_TimedRecv ==
    /\ [](InTimedRecvWait => (deadline > 0 /\ clock <= deadline))
    /\ [][TimedRecvCall
            => IF listen_packets = <<>>
               THEN /\ UNCHANGED listen_packets
                    /\ \/ pc' = "idle" /\ result' = Ret("SOCKET_TIMEOUT", 0)
                       \/ InTimedRecvWait' /\ deadline' = timeout_ms
               ELSE /\ AtListenPop'
                    /\ UNCHANGED listen_packets]_vars
    /\ [][(pc \in {"rt_wait", "udp_rt_wait"} /\ pc' = "idle")
            => /\ clock >= deadline
               /\ result' = Ret("SOCKET_TIMEOUT", 0)
               /\ UNCHANGED listen_packets]_vars
    /\ [][(AtListenPop /\ pc' # pc) => listen_packets' = Tail(listen_packets)]_vars

(* A timed receive on a bound datagram socket with nothing queued returned *)
(* SOCKET_TIMEOUT without any time passing.                                *)
C16_Witness ==
    /\ op = "udp_recv_timed"
    /\ pc = "idle"
    /\ result = Ret("SOCKET_TIMEOUT", 0)
    /\ clock = 0
    /\ udp_connected
    /\ listen_packets = <<>>
    /\ listen

-----------------------------------------------------------------------------
(* C17: a receive whose buffer size n is smaller than the payload of the   *)
(* packet at the head of the listen queue returns BUFFER_SMALL, leaves the *)
(* caller's buffer as it was and removes that packet and no other from the *)
(* queue, so that the following packet is at the head for the next         *)
(* receive.                                                                *)
C17_SmallBufferDiscards ==
    [][(ListenPopStep /\ recv_n < Len(Head(listen_packets).payload))
         => /\ result' = Ret("BUFFER_SMALL", 0)
            /\ UNCHANGED buffer
            /\ listen_packets' = Tail(listen_packets)]_vars

(* A receive with a buffer of one byte failed on the first of two queued   *)
(* segments; the second is now at the head.                                *)
C17_Witness ==
    /\ op = "recv"
    /\ pc = "idle"
    /\ result = Ret("BUFFER_SMALL", 0)
    /\ buffer = <<>>
    /\ listen_packets = <<Data2>>
    /\ Data \in delivered

-----------------------------------------------------------------------------
(* C18 as stated: a receive that takes a packet with a payload P of length *)
(* L from the listen queue succeeds when n >= L, returns L and hands over  *)
(* exactly the bytes of P, and fails with BUFFER_SMALL only when n < L.    *)
C18_ReceiveHandsOverPayload ==
    [][ListenPopStep
         => LET P == Head(listen_packets).payload IN
            IF recv_n >= Len(P)
            THEN result' = Ret("OK", Len(P)) /\ buffer' = P
            ELSE result' = Ret("BUFFER_SMALL", 0)]_vars

-----------------------------------------------------------------------------
(* The live records of a transport's table that hold the given ports *)
tab_holders(tr, source_port, target_port) ==
    {i \in 1..Len(tab_table[tr]) :
        /\ tab_table[tr][i].live
        /\ tab_table[tr][i].local_port = target_port
        /\ tab_table[tr][i].server_port = source_port}

(* The local ports a packet can carry as target, the server ports as source *)
TabLocalPorts == {0} \cup ((first_local_port + 1)..(first_local_port + MaxCreates + 1))

TabServerPorts == RemotePorts \cup {0}

(* C19: within each transport the first connect / client_bind after         *)
(* init_layer is assigned local port 1024 and every later one a strictly   *)
(* larger port, and so no two live connections of a transport that have    *)
(* been assigned their port have the same local port, however the calls of *)
(* the sockets interleave.                                                 *)
C19_PortsFreshAndUnique ==
    \A tr \in Transports :
        /\ tab_assigned[tr] # <<>> => tab_assigned[tr][1] = init_port(tr) + 1
        /\ \A i, j \in 1..Len(tab_assigned[tr]) :
              i < j => tab_assigned[tr][i] < tab_assigned[tr][j]
        /\ \A i \in tab_numbered(tr) : \E k \in 1..Len(tab_assigned[tr]) :
              tab_table[tr][i].local_port = tab_assigned[tr][k]
        /\ \A i, j \in tab_numbered(tr) :
              (i # j /\ tab_table[tr][i].live /\ tab_table[tr][j].live)
                  => tab_table[tr][i].local_port # tab_table[tr][j].local_port

(* Two callers were between create_connection and the port assignment at   *)
(* the same time, and both connections are live with their ports.          *)
C19_Witness ==
    /\ Len(tab_assigned["tcp"]) = 2
    /\ tab_pc["tcp"][1] = "numbered"
    /\ tab_pc["tcp"][2] = "numbered"
    /\ tab_table["tcp"][tab_ref["tcp"][1]].local_port = first_local_port + 2
    /\ tab_table["tcp"][tab_ref["tcp"][2]].local_port = first_local_port + 1
    /\ Len(tab_assigned["udp"]) = 1
    /\ tab_table["udp"][1].local_port = udp_first_local_port + 1

(* C20: after any sequence of connect / client_bind and disconnect /        *)
(* client_unbind in a transport, decode's lookup for a packet with source  *)
(* port sp and target port tp finds a connection exactly when a live       *)
(* connection has local_port = tp and server_port = sp, and what it finds is *)
(* such a connection; a connection set up and not removed is found by its  *)
(* ports, and a linked connection that is found has been set up and not    *)
(* removed.                                                                *)
C20_LookupFindsLive ==
    \A tr \in Transports, sp \in TabServerPorts, tp \in TabLocalPorts :
        LET r == tab_get_connection_for_packet(tr, sp, tp) IN
        /\ r # 0 <=> tab_holders(tr, sp, tp) # {}
        /\ r # 0 => r \in tab_holders(tr, sp, tp)
        /\ <<tp, sp>> \in tab_live[tr] => r # 0
        /\ (r # 0 /\ tab_table[tr][r].socket # 0) => <<tp, sp>> \in tab_live[tr]

(* The first stream connection was removed by disconnect and is no longer  *)
(* found, the second is found by its ports.                                *)
C20_Witness ==
    /\ Len(tab_table["tcp"]) = 2
    /\ ~tab_table["tcp"][1].live
    /\ tab_table["tcp"][1].local_port = first_local_port + 1
    /\ tab_table["tcp"][1].server_port = server_port
    /\ tab_get_connection_for_packet("tcp", server_port, first_local_port + 1) = 0
    /\ tab_table["tcp"][2].connected
    /\ tab_get_connection_for_packet("tcp", server_port, first_local_port + 2) = 2

-----------------------------------------------------------------------------
(* A call of client_unbind: the whole handler is one step of the caller *)
UnbindStep == pc = "idle" /\ op' = "unbind" /\ ops_left' = ops_left - 1

(* The datagrams the peer sends to the port pair of the bound socket *)
ForBoundPair ==
    {dg \in PeerDatagrams : dg.sport = udp_server_port /\ dg.tport = udp_c_local_port}

(* C21: client_unbind on a socket whose connection is connected marks it    *)
(* not connected and removes it from the datagram connection table, and    *)
(* from then on a datagram arriving for its (local port, server port) pair *)
(* is not enqueued on the socket; client_unbind on a connection that is    *)
(* not connected returns NOT_CONNECTED and leaves the table as it is.      *)
C21_UnbindRemoves ==
    /\ [][UnbindStep =>
            IF udp_connected
            THEN /\ result' = Ret("OK", 0)
                 /\ ~udp_connected'
                 /\ ~udp_in_table'
                 /\ \A dg \in ForBoundPair :
                        ~(udp_get_connection_for_packet(dg.sport, dg.tport))'
            ELSE /\ result' = Ret("NOT_CONNECTED", 0)
                 /\ UNCHANGED <<udp_in_table, udp_connected, udp_c_local_port, udp_created>>]_vars
    /\ [][(udp_created /\ ~udp_in_table) =>
            /\ ~udp_in_table'
            /\ \/ listen_packets' = listen_packets
               \/ listen_packets # <<>> /\ listen_packets' = Tail(listen_packets)]_vars

(* After the unbind a datagram for the pair arrived and was not enqueued,  *)
(* on a socket in listen mode.                                             *)
C21_Witness ==
    /\ op = "unbind"
    /\ result = Ret("OK", 0)
    /\ udp_created /\ ~udp_in_table /\ ~udp_connected
    /\ listen
    /\ delivered = {Ping}
    /\ listen_packets = <<>>

-----------------------------------------------------------------------------
(* The packet decode was called with is an echo request for the interface *)
EchoRequestForUs ==
    icmp_packet.type = "ECHO_REQUEST" /\ icmp_packet.target_ip = interface_ip

(* The echo reply the requester expects for the packet *)
EchoReplyFor(packet) ==
    [type |-> "ECHO_REPLY", code |-> 0, target_ip |-> packet.source_ip,
     rest |-> packet.rest, data |-> packet.data]

(* C22: when decode is through with a packet and the internet layer did    *)
(* its part, an echo request for the interface's address has caused        *)
(* exactly one frame, the echo reply to the requester with the request's   *)
(* identifier, sequence number and data; any other packet has caused none. *)
C22_EchoReplied ==
    (icmp_pc = "propagate" /\ icmp_lower = "ok") =>
        IF EchoRequestForUs
        THEN icmp_sent = <<EchoReplyFor(icmp_packet)>>
        ELSE icmp_sent = <<>>

-----------------------------------------------------------------------------
(* The step is a call of erase_packet *)
EraseStep == fd_left' = fd_left - 1 /\ next_fd' = next_fd

(* The step is a call of register_packet *)
RegisterStep == fd_left' = fd_left - 1 /\ Len(fd_returned') = Len(fd_returned) + 1

(* C23: the descriptors register_packet returned are pairwise distinct and *)
(* each is one greater than the one returned before; has_packet(fd) holds  *)
(* exactly for the descriptors returned and not erased since;              *)
(* register_packet returns the old next_fd and keeps every packet already  *)
(* registered; erase_packet(fd) removes the packet with that descriptor    *)
(* and leaves every other registered packet and next_fd as they are.       *)
C23_Descriptors ==
    /\ [](/\ \A i, j \in 1..Len(fd_returned) : i # j => fd_returned[i] # fd_returned[j]
          /\ \A i \in 1..(Len(fd_returned) - 1) : fd_returned[i + 1] = fd_returned[i] + 1
          /\ \A fd \in FdRange : has_packet(fd) <=> fd \in fd_registered
          /\ \A fd \in fd_registered : get_packet(fd).fd = fd)
    /\ [][RegisterStep =>
            /\ fd_returned'[Len(fd_returned')] = next_fd
            /\ \A fd \in fd_registered : has_packet(fd)' /\ get_packet(fd)' = get_packet(fd)]_vars
    /\ [][EraseStep =>
            /\ next_fd' = next_fd
            /\ Len(sock_packets') >= Len(sock_packets) - 1
            /\ \E gone \in FdRange :
                  /\ ~has_packet(gone)'
                  /\ \A fd \in fd_registered \ {gone} :
                        has_packet(fd)' /\ get_packet(fd)' = get_packet(fd)]_vars

(* Three packets were registered on a socket constructed with next_fd = 3, *)
(* the first of them was erased, the other two are still there.            *)
C23_Witness ==
    /\ fd_returned = <<3, 4, 5>>
    /\ next_fd = 6
    /\ fd_registered = {4, 5}
    /\ ~has_packet(3)
    /\ get_packet(4).body = "a"
    /\ get_packet(5).body = "b"

-----------------------------------------------------------------------------
(* C24: whenever a receive goes on to take a packet from the socket's      *)
(* listen queue, having found the queue non-empty or having been woken     *)
(* from wait or wait_for, the queue is non-empty at that moment, with      *)
(* several processes calling receive on the socket while packets arrive.   *)
C24_PopFindsPacket ==
    [][\A r \in Readers :
          (rd_pc[r] = "pop" /\ rd_pc'[r] = "idle") => rd_packets # <<>>]_vars

-----------------------------------------------------------------------------
(* The step is a call of unlock, by a holder or by a process that holds no *)
(* permit, or of irq_unlock                                                *)
UnlockStep ==
    \/ \E pid \in Procs : sem_pc[pid] = "held" /\ sem_pc'[pid] = "idle"
    \/ ext_unlocks' = ext_unlocks + 1

(* C25: unlock and irq_unlock with a non-empty waiter queue remove exactly *)
(* the head waiter, wake it and leave the counter unchanged; with an empty *)
(* waiter queue they increment the counter by exactly 1 and wake nobody.   *)
C25_UnlockFrame ==
    [][UnlockStep =>
         IF queue # <<>>
         THEN /\ queue' = Tail(queue)
              /\ ~blocked'[Head(queue)]
              /\ \A pid \in Procs \ {Head(queue)} : blocked'[pid] = blocked[pid]
              /\ wake_order' = Append(wake_order, Head(queue))
              /\ value' = value
         ELSE /\ value' = value + 1
              /\ queue' = queue
              /\ blocked' = blocked
              /\ wake_order' = wake_order]_vars

(* Two processes were waiting on a semaphore initialised with 0; two       *)
(* unlocks by callers that hold no permit woke them in turn, the counter   *)
(* is still 0; a third such unlock would increment it.                     *)
C25_Witness ==
    /\ init_value = 0
    /\ value = 0
    /\ ext_unlocks = 2
    /\ wake_order = <<1, 2>>
    /\ queue = <<>>
    /\ ~blocked[1] /\ ~blocked[2]

-----------------------------------------------------------------------------
(* The acknowledgement matching rule of finalise-with-retry *)
ExpectedAck(source_flags, flags) ==
    \/ "SYN" \in source_flags /\ "SYN" \in flags /\ "ACK" \in flags
    \/ "SYN" \notin source_flags /\ "ACK" \in flags

(* C26: in finalize_packet the packet taken from the ack-queue ends the    *)
(* wait with success exactly when the frame sent had SYN and the packet    *)
(* has SYN and ACK, or the frame sent had no SYN and the packet has ACK;   *)
(* any other packet is dropped from the queue, the attempt counter and the *)
(* frames transmitted stay as they are, and the operation goes back to     *)
(* waiting in the same attempt.                                            *)
C26_MatchingRule ==
    /\ [][(pc = "fin_pop" /\ pc' # pc) =>
            /\ packets' = Tail(packets)
            /\ IF ExpectedAck(p.flags, Head(packets).flags)
               THEN /\ received'
                    /\ accepted' = Head(packets)
                    /\ pc' = "fin_stop"
               ELSE /\ ~received'
                    /\ pc' = "fin_chk"
                    /\ t' = t
                    /\ sent' = sent
                    /\ UNCHANGED <<seq_number, ack_number, listening>>]_vars
    /\ [][(pc = "fin_chk" /\ pc' # pc) =>
            /\ pc' = "fin_wait"
            /\ t' = t
            /\ sent' = sent]_vars

(* connect sent its SYN, took a bare ACK from the ack-queue, dropped it    *)
(* and is waiting again in the first attempt.                              *)
C26_Witness ==
    /\ op = "connect"
    /\ pc = "fin_wait"
    /\ t = 0
    /\ Len(sent) = 1
    /\ delivered = {Ack}
    /\ packets = <<>>
    /\ ~received

-----------------------------------------------------------------------------
(* A segment is decoded while the connection table holds no connection *)
UnmatchedDecodeStep ==
    /\ d_pc = "idle"
    /\ arrivals_left' = arrivals_left - 1
    /\ \A seg \in PeerSegments : ~get_connection_for_packet(seg.sport, seg.tport)

(* C27: when decode finds no connection for a segment it only logs: no     *)
(* connection's sequence or acknowledgement number changes, nothing is     *)
(* put on the ack-queue or on the socket queue, and no frame (no ACK, even *)
(* for a segment with PSH) is transmitted.                                 *)
C27_UnmatchedOnlyLogs ==
    [][UnmatchedDecodeStep =>
           /\ UNCHANGED <<seq_number, ack_number>>
           /\ UNCHANGED <<packets, listen_packets>>
           /\ sent' = sent]_vars

-----------------------------------------------------------------------------
(* decode finishes a segment for which it found a connection *)
KnownDecodeStep ==
    /\ d_pc = "update"
    /\ d_pc' = "idle"

(* x + n modulo 2^32, on the two halves of a uint32_t *)
Plus32(x, n) ==
    LET low == x[2] + n
    IN  IF low < Two16 THEN <<x[1], low>>
        ELSE IF x[1] = Two16 - 1 THEN <<0, low - Two16>>
        ELSE <<x[1] + 1, low - Two16>>

(* The standalone acknowledgement of a segment *)
StandaloneAck(seg) ==
    [by |-> "decode", sport |-> seg.tport, tport |-> seg.sport,
     flags |-> {"ACK"}, seq |-> seg.ack,
     ack |-> Plus32(seg.seq, Len(seg.payload)), payload |-> <<>>]

(* C28: for a segment received for a known connection, while the internet  *)
(* layer prepares and finalises packets: with PSH, decode transmits        *)
(* exactly one frame, with the flag ACK only, seq the segment's ack        *)
(* number, ack the segment's seq number plus its payload length modulo     *)
(* 2^32, the ports swapped, and is done with the segment in the same step, *)
(* without a wait; without PSH it transmits nothing.                       *)
C28_StandaloneAck ==
    [][(KnownDecodeStep /\ lower = "ok") =>
           IF "PSH" \in d_seg.flags
           THEN sent' = Append(sent, StandaloneAck(d_seg))
           ELSE sent' = sent]_vars

(* On an established connection at rest the segment with the sequence     *)
(* number 2^32 - 2 and two bytes of payload was decoded: one frame, the    *)
(* acknowledgement with ack 0, was transmitted.                            *)
C28_Witness ==
    /\ pc = "idle"
    /\ connected
    /\ d_pc = "idle"
    /\ delivered = {SynAck, DataWrap}
    /\ lower = "ok"
    /\ \E i \in 1..Len(sent) :
          /\ sent[i] = StandaloneAck(DataWrap)
          /\ sent[i].ack = W(0)
          /\ sent[i].seq = W(1)
    /\ ack_number = W(0)

-----------------------------------------------------------------------------
(* C29: whenever a connect, send or disconnect on the connection has       *)
(* returned (with success, with TCP_ERROR after the last attempt, or with  *)
(* an error of the lower layers) the connection's listening flag is false. *)
C29_NotListeningAfterReturn ==
    (pc = "idle" /\ op \in {"connect", "send", "disconnect"}) => ~listening

-----------------------------------------------------------------------------
(* C30: when the internet layer failed to prepare the packet of an echo    *)
(* reply, ICMP decode logs and is done with the reply: it goes on to       *)
(* propagate_packet without calling finalize_packet on the reply, and no   *)
(* frame is transmitted.                                                   *)
C30_FailedPrepareDrops ==
    [][(icmp_pc = "check" /\ icmp_reply.status = "error") =>
           /\ icmp_pc' = "propagate"
           /\ icmp_sent' = icmp_sent]_vars

-----------------------------------------------------------------------------
(* The counter, the sleep queue and what the scheduler was told *)
SemState ==
    [value |-> value, queue |-> queue, blocked |-> blocked, wake_order |-> wake_order]

(* The effect of one call of unlock (lines 80-91) on such a state *)
UnlockOnce(s) ==
    IF s.queue = <<>>
    THEN [s EXCEPT !.value = @ + 1]
    ELSE [value |-> s.value,
          queue |-> Tail(s.queue),
          blocked |-> unblock_process(s.blocked, Head(s.queue)),
          wake_order |-> Append(s.wake_order, Head(s.queue))]

RECURSIVE UnlockTimes(_, _)
UnlockTimes(s, n) == IF n = 0 THEN s ELSE UnlockTimes(UnlockOnce(s), n - 1)

(* A call of release or irq_release *)
ReleaseStep == rel_args' # rel_args

(* C31: release(n) and irq_release(n) leave the counter and the sleep      *)
(* queue as n calls of unlock in a row would: with w waiters queued the    *)
(* first min(n, w) of them are woken in queue order and n - min(n, w) is   *)
(* added to the counter.                                                   *)
C31_ReleaseIsRepeatedUnlock ==
    [][ReleaseStep =>
          LET n == rel_args'[Len(rel_args')]
              w == Len(queue)
              m == IF n < w THEN n ELSE w
          IN  /\ SemState' = UnlockTimes(SemState, n)
              /\ wake_order' = wake_order \o SubSeq(queue, 1, m)
              /\ queue' = SubSeq(queue, m + 1, w)
              /\ value' = value + (n - m)
              /\ \A i \in 1..m : ~blocked'[queue[i]]]_vars

(* With two processes waiting, release(1) woke the first of them only;     *)
(* then release(3) woke the second and added 2 to the counter.             *)
C31_Witness ==
    /\ init_value = 0
    /\ rel_args = <<1, 3>>
    /\ lock_order = <<1, 2>>
    /\ wake_order = <<1, 2>>
    /\ queue = <<>>
    /\ value = 2

-----------------------------------------------------------------------------
(* decode pushes the segment onto the connection's ack-queue (line 228) *)
AckPushStep ==
    /\ d_pc = "update"
    /\ d_pc' = "idle"
    /\ listening

(* C32: decode never pushes onto an ack-queue that already holds 8         *)
(* packets, whatever arrives during a connect, send or disconnect.         *)
C32_AckQueueHasRoom ==
    [][AckPushStep => Len(packets) < ack_queue_capacity]_vars

-----------------------------------------------------------------------------
(* decode pushes a packet onto the socket's listen queue                   *)
(* (tcp_layer.cpp:244, udp_layer.cpp:115).  The step of the datagram       *)
(* decode is told from that of the stream decode without a connection by   *)
(* the acknowledgement that the latter transmits.                          *)
ListenPushStep ==
    \/ /\ d_pc = "update"
       /\ d_pc' = "idle"
       /\ "PSH" \in d_seg.flags
       /\ listen
    \/ /\ d_pc = "idle"
       /\ d_pc' = "idle"
       /\ arrivals_left' = arrivals_left - 1
       /\ listen
       /\ sent' = sent
       /\ udp_get_connection_for_packet(Ping.sport, Ping.tport)

(* C33: neither decode path pushes onto a listen queue that already holds  *)
(* 32 packets, whatever arrives and whenever recv is called.               *)
C33_ListenQueueHasRoom ==
    [][ListenPushStep => Len(listen_packets) < listen_queue_capacity]_vars

-----------------------------------------------------------------------------
(* try_lock took a permit / lock took the fast path (lines 41-43, 64-67)   *)
TakesPermitStep ==
    \E pid \in Procs :
        /\ sem_pc[pid] = "idle"
        /\ sem_pc'[pid] = "held"

(* C34: while a process is in the sleep queue the counter is 0; so         *)
(* try_lock does not succeed and lock does not take the fast path while a  *)
(* process is queued.                                                      *)
C34_NoBarging ==
    /\ [](queue # <<>> => value = 0)
    /\ [][TakesPermitStep => queue = <<>>]_vars

(* Process 1 waited and got the permit of a release(1); process 2 is       *)
(* queued behind it and the counter is 0, so that a try_lock or a lock of  *)
(* process 3, which is idle, cannot take a permit ahead of process 2.      *)
C34_Witness ==
    /\ init_value = 0
    /\ value = 0
    /\ rel_args = <<1>>
    /\ wake_order = <<1>>
    /\ queue = <<2>>
    /\ sem_pc[1] = "held"
    /\ sem_pc[3] = "idle"

-----------------------------------------------------------------------------
(* The process has pushed its pid and released the spinlock in lock, has   *)
(* not called reschedule yet (line 50), and an unlock has already taken    *)
(* its pid from the queue                                                  *)
WokenBeforeReschedule(pid) ==
    /\ sem_pc[pid] = "resched"
    /\ \A i \in 1..Len(queue) : queue[i] # pid

(* C35: a process that unlock dequeued and unblocked between its release   *)
(* of the spinlock and its call of reschedule is not switched out for      *)
(* good: its reschedule leaves it runnable and it returns from lock        *)
(* holding the permit.                                                     *)
C35_EarlyWakeNotLost ==
    /\ \A pid \in Procs : WokenBeforeReschedule(pid) ~> (sem_pc[pid] = "held")
    /\ [][\A pid \in Procs :
            (WokenBeforeReschedule(pid) /\ sem_pc'[pid] # "resched") =>
                (sem_pc'[pid] = "held" /\ ~blocked'[pid])]_vars

(* Process 1 found the counter at 0, queued itself and released the        *)
(* spinlock; before it has called reschedule, an unlock has dequeued and   *)
(* unblocked it.                                                           *)
C35_Witness ==
    /\ init_value = 0
    /\ sem_pc[1] = "resched"
    /\ ~blocked[1]
    /\ lock_order = <<1>>
    /\ wake_order = <<1>>
    /\ queue = <<>>
    /\ value = 0

-----------------------------------------------------------------------------
(* C36: an untimed recv is never blocked in listen_queue.wait() while the  *)
(* socket's listen queue holds a packet: a packet that decode enqueues     *)
(* after recv tested the queue, also before recv began to wait, is handed  *)
(* to recv.                                                                *)
C36_NotBlockedWithPacket ==
    pc \in {"recv_wait", "udp_recv_wait"} => listen_packets = <<>>

-----------------------------------------------------------------------------
(* finalize_packet hands the frame to the internet layer (lines 420-444) *)
FinalizeTransmitStep ==
    /\ pc = "fin_tx"
    /\ Len(sent') = Len(sent) + 1
    /\ sent'[Len(sent')].by = "finalize"

(* The acknowledgement of the frame has reached decode after the frame's   *)
(* first transmission                                                      *)
MatchingAckArrived ==
    \E seg \in answers : correct_ack(p.flags, seg.flags)

(* C37: once the matching acknowledgement has reached decode, at any time  *)
(* after the first transmission (also before the wait on the condition     *)
(* variable began), finalize_packet does not transmit the frame again, and *)
(* the operation does not return TCP_ERROR.                                *)
C37_AckEndsRetry ==
    [][MatchingAckArrived =>
           /\ ~FinalizeTransmitStep
           /\ (pc = "fin_stop" /\ pc' = "idle") => result'.code # "TCP_ERROR"]_vars

-----------------------------------------------------------------------------
(* An operation sets connection.listening = true (lines 412 and 608) *)
StartsListeningStep ==
    \/ pc = "fin_listen" /\ pc' = "fin_tx"
    \/ pc = "idle" /\ pc' = "dis_tx"

(* C38: the ack-queue is empty whenever an operation starts listening, so  *)
(* that no packet queued during an earlier operation is taken for the      *)
(* acknowledgement of a later one.                                         *)
C38_AckQueueEmptyAtStart ==
    [][StartsListeningStep => packets = <<>>]_vars

-----------------------------------------------------------------------------
(* C39: after a successful disconnect of a stream socket or unbind of a    *)
(* datagram socket the socket no longer refers to the connection record    *)
(* that was removed from the table, so no later operation on the socket    *)
(* reads or writes a removed record.                                       *)
C39_NoReferenceToRemoved ==
    \A tr \in Transports, s \in Socks :
        tab_sock[tr][s] # 0 => tab_table[tr][tab_sock[tr][s]].live

-----------------------------------------------------------------------------
(* C40: when connect returns an error (the frame could not be prepared,    *)
(* the lower layer failed, or no SYN/ACK came within the tries:            *)
(* TCP_ERROR), the connection record it created is no longer in the table. *)
C40_FailedConnectRemoves ==
    (pc = "idle" /\ op = "connect" /\ result.code # "OK") => ~in_table
====
